---- MODULE Spec2Model ----
(***************************************************************************)
(* A model of the RESP fuzzing harness of df-afl: the wire codec           *)
(* (encode_resp, decode_resp), the command generator                       *)
(* (RedisCommandGenerator) and the AFL harness (AFLFuzzer, RedisClient).   *)
(*                                                                         *)
(* Python values are records [t, v]: t is the Python type and v a          *)
(* sequence holding the payload.  A str is a sequence of code points, a    *)
(* bytes object a sequence of integers 0..255.                             *)
(***************************************************************************)
EXTENDS Integers, Sequences, FiniteSets, TLC

(***************************************************************************)
(* Characters.                                                             *)
(***************************************************************************)
\* the ASCII characters from 32 (space) to 95 (_), in code order
Punct ==
    <<" ", "!", "\"", "#", "$", "%", "&", "'", "(", ")", "*", "+", ",", "-", ".", "/",
      "0", "1", "2", "3", "4", "5", "6", "7", "8", "9", ":", ";", "<", "=", ">", "?",
      "@", "A", "B", "C", "D", "E", "F", "G", "H", "I", "J", "K", "L", "M", "N", "O",
      "P", "Q", "R", "S", "T", "U", "V", "W", "X", "Y", "Z", "[", "\\", "]", "^", "_">>

\* the ASCII characters from 97 (a) to 126 (~), in code order
Lower ==
    <<"a", "b", "c", "d", "e", "f", "g", "h", "i", "j", "k", "l", "m", "n", "o",
      "p", "q", "r", "s", "t", "u", "v", "w", "x", "y", "z", "{", "|", "}", "~">>

\* ord(c)
Ord ==
    [c \in {Punct[i] : i \in DOMAIN Punct} |->
        31 + (CHOOSE i \in DOMAIN Punct : Punct[i] = c)]
    @@ [c \in {Lower[i] : i \in DOMAIN Lower} |->
        96 + (CHOOSE i \in DOMAIN Lower : Lower[i] = c)]
    @@ ("\r" :> 13) @@ ("\n" :> 10) @@ ("\t" :> 9)

\* a str or bytes literal, written as the tuple of its characters
S(chars) == [i \in DOMAIN chars |-> Ord[chars[i]]]

CRLF == S(<<"\r", "\n">>)

(***************************************************************************)
(* Python values.                                                          *)
(***************************************************************************)
PyStr(s) == [t |-> "str", v |-> s]
PyBytes(b) == [t |-> "bytes", v |-> b]
PyInt(n) == [t |-> "int", v |-> <<n>>]
PyNone == [t |-> "None", v |-> <<>>]
PyList(xs) == [t |-> "list", v |-> xs]
\* a scalar of another type (a float, say), carried as the text str() gives it
PyOther(s) == [t |-> "other", v |-> s]
PyError(s) == [t |-> "dict", v |-> <<"error", s>>]
PyRaise(e) == [t |-> "raise", v |-> <<e>>]

\* Python's ==: values of different types are unequal (an int never equals a
\* bytes object).
PyEq(a, b) == a.t = b.t /\ a.v = b.v

(***************************************************************************)
(* Sequence helpers with Python's semantics (0-based, clamped slices,      *)
(* negative indices counted from the end).                                 *)
(***************************************************************************)
Min(a, b) == IF a < b THEN a ELSE b
Max(a, b) == IF a > b THEN a ELSE b

\* s[a:b]
PySlice(s, a, b) ==
    LET n == Len(s)
        lo == IF a < 0 THEN Max(n + a, 0) ELSE Min(a, n)
        hi == IF b < 0 THEN Max(n + b, 0) ELSE Min(b, n)
    IN  IF lo >= hi THEN <<>> ELSE SubSeq(s, lo + 1, hi)

\* s[a:]
PyFrom(s, a) == PySlice(s, a, Len(s))

\* s.find(sub, start) for a two-byte sub: the lowest index >= start, or -1
PyFind(s, sub, start) ==
    LET from == IF start < 0 THEN Max(Len(s) + start, 0) ELSE start
        hits == {i \in from..(Len(s) - Len(sub)) :
                    SubSeq(s, i + 1, i + Len(sub)) = sub}
    IN  IF hits = {} THEN -1 ELSE CHOOSE i \in hits : \A j \in hits : i <= j

\* s.split(sep)[0]: everything before the first separator
SplitFirst(s, sep) ==
    LET i == PyFind(s, sep, 0)
    IN  IF i = -1 THEN s ELSE PySlice(s, 0, i)

\* sep.join(s.split(sep)[1:]): everything after the first separator
AfterFirst(s, sep) ==
    LET i == PyFind(s, sep, 0)
    IN  IF i = -1 THEN <<>> ELSE PyFrom(s, i + Len(sep))

(***************************************************************************)
(* Decimal conversion: str(int) and int(bytes).                            *)
(***************************************************************************)
RECURSIVE Digits(_)
Digits(n) ==
    IF n < 10 THEN <<Ord["0"] + n>>
    ELSE Digits(n \div 10) \o <<Ord["0"] + (n % 10)>>

\* f"{n}"
IntStr(n) == IF n < 0 THEN <<Ord["-"]>> \o Digits(-n) ELSE Digits(n)

IsDigit(c) == c >= Ord["0"] /\ c <= Ord["9"]
IsSpace(c) == c \in {9, 10, 11, 12, 13, 32}

RECURSIVE LStrip(_)
LStrip(s) == IF s # <<>> /\ IsSpace(s[1]) THEN LStrip(Tail(s)) ELSE s

RECURSIVE RStrip(_)
RStrip(s) ==
    IF s # <<>> /\ IsSpace(s[Len(s)]) THEN RStrip(SubSeq(s, 1, Len(s) - 1)) ELSE s

Strip(s) == RStrip(LStrip(s))

\* str.isspace of one code point
IsStrSpace(c) ==
    \/ c \in 9..13 \/ c \in 28..32 \/ c \in {133, 160, 5760}
    \/ c \in 8192..8202 \/ c \in {8232, 8233, 8239, 8287, 12288}

RECURSIVE StrLStrip(_)
StrLStrip(s) == IF s # <<>> /\ IsStrSpace(s[1]) THEN StrLStrip(Tail(s)) ELSE s

RECURSIVE StrRStrip(_)
StrRStrip(s) ==
    IF s # <<>> /\ IsStrSpace(s[Len(s)])
    THEN StrRStrip(SubSeq(s, 1, Len(s) - 1)) ELSE s

\* str.strip()
StrStrip(s) == StrRStrip(StrLStrip(s))

RECURSIVE DigitsValue(_, _)
DigitsValue(s, acc) ==
    IF s = <<>> THEN acc
    ELSE IF s[1] = Ord["_"] THEN DigitsValue(Tail(s), acc)
    ELSE DigitsValue(Tail(s), acc * 10 + (s[1] - Ord["0"]))

\* int(b): surrounding whitespace, an optional sign, digits with single
\* underscores between them; anything else raises ValueError.
IntLiteralOk(s) ==
    LET body == IF s # <<>> /\ s[1] \in {Ord["+"], Ord["-"]} THEN Tail(s) ELSE s
    IN  /\ body # <<>>
        /\ IsDigit(body[1]) /\ IsDigit(body[Len(body)])
        /\ \A i \in 1..Len(body) : IsDigit(body[i]) \/ body[i] = Ord["_"]
        /\ \A i \in 1..(Len(body) - 1) :
              ~(body[i] = Ord["_"] /\ body[i + 1] = Ord["_"])

CanParseInt(b) == IntLiteralOk(Strip(b))

ParseInt(b) ==
    LET s == Strip(b)
        neg == s[1] = Ord["-"]
        body == IF s[1] \in {Ord["+"], Ord["-"]} THEN Tail(s) ELSE s
        n == DigitsValue(body, 0)
    IN  IF neg THEN -n ELSE n

(***************************************************************************)
(* UTF-8: str.encode("utf-8") and bytes.decode("utf-8", errors="ignore").  *)
(***************************************************************************)
Utf8Char(cp) ==
    IF cp < 128 THEN <<cp>>
    ELSE IF cp < 2048 THEN <<192 + (cp \div 64), 128 + (cp % 64)>>
    ELSE IF cp < 65536
         THEN <<224 + (cp \div 4096), 128 + ((cp \div 64) % 64), 128 + (cp % 64)>>
    ELSE <<240 + (cp \div 262144), 128 + ((cp \div 4096) % 64),
           128 + ((cp \div 64) % 64), 128 + (cp % 64)>>

RECURSIVE Utf8Encode(_)
Utf8Encode(s) == IF s = <<>> THEN <<>> ELSE Utf8Char(s[1]) \o Utf8Encode(Tail(s))

\* number of continuation bytes a lead byte asks for; -1 for a byte that
\* cannot start a character
Utf8Need(b) ==
    IF b < 128 THEN 0
    ELSE IF b >= 194 /\ b <= 223 THEN 1
    ELSE IF b >= 224 /\ b <= 239 THEN 2
    ELSE IF b >= 240 /\ b <= 244 THEN 3
    ELSE -1

\* the range allowed for the byte that follows lead byte b
Utf8Second(b) ==
    IF b = 224 THEN 160..191
    ELSE IF b = 237 THEN 128..159
    ELSE IF b = 240 THEN 144..191
    ELSE IF b = 244 THEN 128..143
    ELSE 128..191

\* how many of the continuation bytes wanted by s[1] are present and valid
Utf8Have(s) ==
    LET need == Utf8Need(s[1])
        ok(i) == /\ i + 1 <= Len(s)
                 /\ s[i + 1] \in (IF i = 1 THEN Utf8Second(s[1]) ELSE 128..191)
        good == {k \in 0..need : \A i \in 1..k : ok(i)}
    IN  CHOOSE k \in good : \A j \in good : j <= k

Utf8Point(s, need) ==
    IF need = 0 THEN s[1]
    ELSE IF need = 1 THEN (s[1] - 192) * 64 + (s[2] - 128)
    ELSE IF need = 2 THEN (s[1] - 224) * 4096 + (s[2] - 128) * 64 + (s[3] - 128)
    ELSE (s[1] - 240) * 262144 + (s[2] - 128) * 4096 + (s[3] - 128) * 64 + (s[4] - 128)

\* errors="ignore": a malformed sequence is dropped and decoding goes on with
\* the byte after it
RECURSIVE Utf8Decode(_)
Utf8Decode(s) ==
    IF s = <<>> THEN <<>>
    ELSE LET need == Utf8Need(s[1])
         IN  IF need = -1 THEN Utf8Decode(Tail(s))
             ELSE LET have == Utf8Have(s)
                  IN  IF have = need
                      THEN <<Utf8Point(s, need)>> \o Utf8Decode(PyFrom(s, need + 1))
                      ELSE Utf8Decode(PyFrom(s, have + 1))

(***************************************************************************)
(* encode_resp                                                             *)
(***************************************************************************)
RECURSIVE encode_resp(_)
encode_resp(data) ==
    IF data.t = "str"
    THEN <<Ord["$"]>> \o IntStr(Len(data.v)) \o CRLF \o data.v \o CRLF
    ELSE IF data.t = "int"
    THEN <<Ord[":"]>> \o IntStr(data.v[1]) \o CRLF
    ELSE IF data.t = "list"
    THEN LET F[i \in 0..Len(data.v)] ==
                 IF i = 0 THEN <<Ord["*"]>> \o IntStr(Len(data.v)) \o CRLF
                 ELSE F[i - 1] \o encode_resp(data.v[i])
         IN  F[Len(data.v)]
    ELSE IF data.t = "None"
    THEN <<Ord["$"], Ord["-"], Ord["0"] + 1>> \o CRLF
    ELSE <<Ord["+"]>> \o data.v \o CRLF

(***************************************************************************)
(* decode_resp                                                             *)
(***************************************************************************)
\* data[i] of a bytes object: an int; a negative index counts from the end
PyIndex(data, i) == IF i < 0 THEN data[Len(data) + i + 1] ELSE data[i + 1]

\* data[0:1], the first byte as bytes: the dispatch as it would be entered
data_type_as_bytes(data) == PyBytes(PySlice(data, 0, 1))

\* data[0]: indexing a bytes object yields an int
data_type(data) == PyInt(PyIndex(data, 0))

\* the one-byte bytes literals b"+", b"-", b":", b"$", b"*" of the dispatch
Marker(c) == PyBytes(<<Ord[c]>>)

\* int(x) of the code: the value, or ValueError
IntOrRaise(x, Then(_)) ==
    IF CanParseInt(x) THEN Then(ParseInt(x)) ELSE PyRaise("ValueError")

\* one turn of the loop over the elements of an array; n is what is left
\* of range(length)
RECURSIVE DecodeElements(_, _, _, _)
DecodeElements(part_data, n, pos, result) ==
    IF n <= 0 \/ pos >= Len(part_data) THEN PyList(result)
    ELSE IF pos < -Len(part_data) THEN PyRaise("IndexError")
    ELSE LET c == PyIndex(part_data, pos)
             end_pos == PyFind(part_data, CRLF, pos)
             field == PySlice(part_data, pos + 1, end_pos)
         IN  IF c = Ord["$"]
             THEN LET Bulk(bulk_len) ==
                         IF bulk_len = -1
                         THEN DecodeElements(part_data, n - 1, end_pos + 2,
                                             Append(result, PyNone))
                         ELSE LET string_start == end_pos + 2
                                  string_end == string_start + bulk_len
                              IN  DecodeElements(part_data, n - 1, string_end + 2,
                                     Append(result, PyStr(Utf8Decode(
                                        PySlice(part_data, string_start, string_end)))))
                  IN  IntOrRaise(field, Bulk)
             ELSE IF c = Ord[":"]
             THEN LET Elem(k) == DecodeElements(part_data, n - 1, end_pos + 2,
                                               Append(result, PyInt(k)))
                  IN  IntOrRaise(field, Elem)
             ELSE IF c = Ord["+"]
             THEN DecodeElements(part_data, n - 1, end_pos + 2,
                                 Append(result, PyStr(Utf8Decode(field))))
             ELSE IF c = Ord["-"]
             THEN DecodeElements(part_data, n - 1, end_pos + 2,
                                 Append(result, PyError(Utf8Decode(field))))
             ELSE PyList(result)

\* lines 96-133: pos after the turn that decodes the element at pos; none
\* when int raises or the type is unknown and the loop is left
ElementEnd(part_data, pos) ==
    LET c == PyIndex(part_data, pos)
        end_pos == PyFind(part_data, CRLF, pos)
        field == PySlice(part_data, pos + 1, end_pos)
    IN  IF c = Ord["$"]
        THEN IF ~CanParseInt(field) THEN [left |-> TRUE, pos |-> pos]
             ELSE IF ParseInt(field) = -1 THEN [left |-> FALSE, pos |-> end_pos + 2]
             ELSE [left |-> FALSE, pos |-> end_pos + 2 + ParseInt(field) + 2]
        ELSE IF c = Ord[":"]
        THEN [left |-> ~CanParseInt(field), pos |-> IF CanParseInt(field) THEN end_pos + 2 ELSE pos]
        ELSE IF c \in {Ord["+"], Ord["-"]}
        THEN [left |-> FALSE, pos |-> end_pos + 2]
        ELSE [left |-> TRUE, pos |-> pos]

\* lines 91-135: the values of pos, from the 0 of line 92 on, one for each
\* element decoded; n is what is left of range(length)
RECURSIVE Positions(_, _, _)
Positions(part_data, n, pos) ==
    IF n <= 0 \/ pos >= Len(part_data) \/ pos < -Len(part_data) THEN <<pos>>
    ELSE IF ElementEnd(part_data, pos).left THEN <<pos>>
    ELSE <<pos>> \o Positions(part_data, n - 1, ElementEnd(part_data, pos).pos)

decode_resp(data) ==
    IF data = <<>> THEN PyNone
    ELSE LET line == SplitFirst(PyFrom(data, 1), CRLF)
         IN  IF PyEq(data_type(data), Marker("+"))
             THEN PyStr(Utf8Decode(line))
             ELSE IF PyEq(data_type(data), Marker("-"))
             THEN PyError(Utf8Decode(line))
             ELSE IF PyEq(data_type(data), Marker(":"))
             THEN IntOrRaise(line, PyInt)
             ELSE IF PyEq(data_type(data), Marker("$"))
             THEN LET Bulk(length) ==
                         IF length = -1 THEN PyNone
                         ELSE LET start == PyFind(data, CRLF, 0) + 2
                              IN  PyStr(Utf8Decode(PySlice(data, start, start + length)))
                  IN  IntOrRaise(line, Bulk)
             ELSE IF PyEq(data_type(data), Marker("*"))
             THEN LET Array(length) ==
                         IF length = -1 THEN PyNone
                         ELSE DecodeElements(AfterFirst(data, CRLF), length, 0, <<>>)
                  IN  IntOrRaise(line, Array)
             ELSE PyStr(Utf8Decode(data))

(***************************************************************************)
(* The command catalog and the value generators (redis_commands.py).       *)
(* The catalog is an excerpt of REDIS_COMMANDS; a generator is the set of  *)
(* values it can return, cut down to a few representatives.                *)
(***************************************************************************)
Range(f) == {f[i] : i \in DOMAIN f}

\* s.split(c)
RECURSIVE Split(_, _)
Split(s, c) ==
    LET hits == {i \in 1..Len(s) : s[i] = c}
    IN  IF hits = {} THEN <<s>>
        ELSE LET i == CHOOSE k \in hits : \A j \in hits : k <= j
             IN  <<SubSeq(s, 1, i - 1)>> \o Split(SubSeq(s, i + 1, Len(s)), c)

\* c in s
Contains(s, c) == \E i \in 1..Len(s) : s[i] = c

ACL_CAT == S(<<"A", "C", "L", " ", "C", "A", "T">>)
PING == S(<<"P", "I", "N", "G">>)
ECHO == S(<<"E", "C", "H", "O">>)
EXPIRE == S(<<"E", "X", "P", "I", "R", "E">>)
SCAN == S(<<"S", "C", "A", "N">>)
GET == S(<<"G", "E", "T">>)
SELECT == S(<<"S", "E", "L", "E", "C", "T">>)

REDIS_COMMANDS ==
    (ACL_CAT :> [args |-> <<>>,
                 optional_args |-> <<S(<<"c", "a", "t", "e", "g", "o", "r", "y",
                                         "n", "a", "m", "e">>)>>])
    @@ (PING :> [args |-> <<>>, optional_args |-> <<>>])
    @@ (ECHO :> [args |-> <<S(<<"m", "e", "s", "s", "a", "g", "e">>)>>,
                 optional_args |-> <<>>])
    @@ (EXPIRE :> [args |-> <<S(<<"k", "e", "y">>),
                              S(<<"s", "e", "c", "o", "n", "d", "s">>)>>,
                   optional_args |-> <<S(<<"N", "X", "|", "X", "X", "|", "G", "T",
                                           "|", "L", "T">>)>>])
    @@ (SCAN :> [args |-> <<S(<<"c", "u", "r", "s", "o", "r">>)>>,
                 optional_args |->
                    <<S(<<"M", "A", "T", "C", "H", " ", "p", "a", "t", "t", "e", "r", "n">>),
                      S(<<"C", "O", "U", "N", "T", " ", "c", "o", "u", "n", "t">>)>>])
    @@ (GET :> [args |-> <<S(<<"k", "e", "y">>)>>, optional_args |-> <<>>])
    @@ (SELECT :> [args |-> <<S(<<"i", "n", "d", "e", "x">>)>>, optional_args |-> <<>>])

SPECIAL_CHARS == {S(<<"!">>)}
ESCAPED_CHARS == {S(<<"\\", "n">>)}

\* DATA_TYPES as the module defines it
BaseDataTypes ==
    [key |-> {S(<<"k", "e", "y", ":", "a">>)},
     pattern |-> {S(<<"*", ":", "a">>)},
     count |-> {S(<<"1">>)},
     cursor |-> {S(<<"0">>)},
     seconds |-> {S(<<"6", "0">>)},
     message |-> {S(<<"m">>)}]

\* the four generators enhance_data_types adds first
StringDataTypes ==
    [special_string |-> {S(<<"a", "!">>)},
     escaped_string |-> {S(<<"\\", "n", "a">>)},
     mixed_string |-> {S(<<"a", "!", "\\", "n", "a">>)},
     binary_string |-> {S(<<"\\", "x", "0", "0">>)}]

\* the keys enhance_data_types gives a special_ and an escaped_ variant
Enhanced(types) ==
    {k \in DOMAIN types :
        k \in {"special_string", "escaped_string", "mixed_string", "binary_string",
               "string", "value", "message", "element", "key", "field", "member",
               "pattern"}}

\* DATA_TYPES after enhance_data_types()
DATA_TYPES ==
    LET types == BaseDataTypes @@ StringDataTypes
    IN  types
        @@ [k \in {"special_" \o x : x \in Enhanced(types)} |->
               LET x == CHOOSE y \in Enhanced(types) : "special_" \o y = k
               IN  {v \o c : v \in types[x], c \in SPECIAL_CHARS}]
        @@ [k \in {"escaped_" \o x : x \in Enhanced(types)} |->
               LET x == CHOOSE y \in Enhanced(types) : "escaped_" \o y = k
               IN  {v \o c : v \in types[x], c \in ESCAPED_CHARS}]

\* ARG_TYPE_MAP: an argument key names a type of DATA_TYPES, or is mapped to
\* a generator of its own (callable)
ARG_TYPE_MAP ==
    (S(<<"k", "e", "y">>) :> [callable |-> FALSE, type_name |-> "key", out |-> {}])
    @@ (S(<<"p", "a", "t", "t", "e", "r", "n">>) :>
            [callable |-> FALSE, type_name |-> "pattern", out |-> {}])
    @@ (S(<<"c", "o", "u", "n", "t">>) :>
            [callable |-> FALSE, type_name |-> "count", out |-> {}])
    @@ (S(<<"c", "u", "r", "s", "o", "r">>) :>
            [callable |-> FALSE, type_name |-> "cursor", out |-> {}])
    @@ (S(<<"s", "e", "c", "o", "n", "d", "s">>) :>
            [callable |-> FALSE, type_name |-> "seconds", out |-> {}])
    @@ (S(<<"m", "e", "s", "s", "a", "g", "e">>) :>
            [callable |-> FALSE, type_name |-> "message", out |-> {}])
    @@ (S(<<"i", "n", "d", "e", "x">>) :>
            [callable |-> TRUE, type_name |-> "", out |-> {S(<<"i", "d", "x", ":", "a">>)}])
    @@ (S(<<"c", "a", "t", "e", "g", "o", "r", "y", "n", "a", "m", "e">>) :>
            [callable |-> TRUE, type_name |-> "", out |-> {S(<<"l", "i", "s", "t">>)}])

\* the values random.random() takes, in hundredths: one in every interval
\* the thresholds of the code cut [0, 1) into
Draws == {10, 25, 35, 45, 55, 65, 75, 95}

(***************************************************************************)
(* State.                                                                  *)
(***************************************************************************)
VARIABLES
    value,      \* codec: the Python value handed to encode_resp
    wire,       \* codec: the bytes on the wire
    decoded,    \* codec: what decode_resp returned for wire
    cpc,        \* codec: "value", "sent", "roundtrip", "reply", "decoded" or
                \* "elements"
    cursor,     \* codec: the values pos took in the loop over the elements
                \* of an array
    EXCLUDED_COMMANDS,  \* configuration: the set of excluded command names
    FOCUS_COMMANDS,     \* configuration: the list of focus commands
    DICT_MIX_RATIO,     \* configuration: the mix ratio, in hundredths
    DICT_VALUES,        \* the literal dictionary, loaded at start
    INPUT_VALUES,       \* the runtime corpus, loaded at start
    MAX_COMMANDS_PER_TEST,  \* configuration: the most commands of a test
    command,    \* generator: the command name last returned
    args,       \* generator: the argument list last returned
    calls,      \* generator: the generate_random_arg calls of that command
    optlog,     \* generator: where each optional spec was expanded
    gpc,         \* generator: "idle" or "returned"
    pc,         \* harness: where AFLFuzzer.run stands
    afl_input,  \* harness: AFLFuzzer.afl_input, None or bytes
    test_cases, \* harness: AFLFuzzer.test_cases, a list of (command, args)
    results,    \* harness: AFLFuzzer.results
    stats,      \* harness: AFLFuzzer.stats
    sock,       \* harness: redis_client.sock
    idx,        \* harness: the number of commands the loop has been through
    sent,       \* harness: the commands execute_command tried to send
    build,      \* harness: how the test case was built (the locals of
                \* parse_afl_input and the calls on the random source)
    reads,      \* harness: for each call of execute_command, why it stopped
                \* reading and the bytes it then held
    file,       \* test case file: the bytes save_to_file wrote, None before
    loaded,     \* test case file: the TestCase load_from_file returned
    replayed,   \* test case file: for each command of the loaded test case,
                \* whether execute_command tried to send it and the bytes
    received,   \* connection: the chunks recv has returned to the call of
                \* execute_command under way, each with the command the
                \* server sent it in reply to
    waited,     \* connection: the seconds that call has spent in recv
    pending,    \* connection: the chunks the server has sent, or will
                \* send, that no recv has returned yet
    origin      \* connection: for each finished call, the commands whose
                \* reply bytes its data held

codecVars == <<value, wire, decoded, cpc, cursor>>
configVars ==
    <<EXCLUDED_COMMANDS, FOCUS_COMMANDS, DICT_MIX_RATIO, DICT_VALUES, INPUT_VALUES,
      MAX_COMMANDS_PER_TEST>>
genVars == <<command, args, calls, optlog, gpc>>
harnessVars ==
    <<pc, afl_input, test_cases, results, stats, sock, idx, sent, build, reads>>
fileVars == <<file, loaded, replayed>>
connVars == <<received, waited, pending, origin>>
vars == <<codecVars, configVars, genVars, harnessVars, fileVars, connVars>>

(***************************************************************************)
(* RedisCommandGenerator.  Every operator is the set of results the code   *)
(* can return, one for each course the random draws can take.              *)
(***************************************************************************)
\* `if dict_value:`: None and the empty string are false
Truthy(x) == x.t = "str" /\ x.v # <<>>

get_value_from_dictionary ==
    {PyStr(x) : x \in IF INPUT_VALUES # <<>> /\ (\E r \in Draws : r < 50)
                      THEN Range(INPUT_VALUES) ELSE {}}
    \cup (IF INPUT_VALUES = <<>> \/ (\E r \in Draws : ~(r < 50))
          THEN IF DICT_VALUES # <<>>
               THEN {PyStr(x) : x \in Range(DICT_VALUES)}
               ELSE {PyNone}
          ELSE {})

\* lines 233-244: the variant chosen by one draw
Variant(type_name, variant_decision) ==
    LET string_like == type_name \in {"string", "value", "message", "element"}
    IN  IF variant_decision < 20 /\ ("special_" \o type_name) \in DOMAIN DATA_TYPES
        THEN DATA_TYPES["special_" \o type_name]
        ELSE IF variant_decision < 40 /\ ("escaped_" \o type_name) \in DOMAIN DATA_TYPES
        THEN DATA_TYPES["escaped_" \o type_name]
        ELSE IF variant_decision < 60 /\ string_like
        THEN DATA_TYPES["mixed_string"]
        ELSE IF variant_decision < 80 /\ string_like
        THEN DATA_TYPES["binary_string"]
        ELSE DATA_TYPES[type_name]

\* lines 226-246: the value generated when the dictionary gave none (an
\* argument key is a string, never itself callable)
Synthetic(arg_type) ==
    IF arg_type \in DOMAIN ARG_TYPE_MAP
    THEN LET m == ARG_TYPE_MAP[arg_type]
             out == IF m.callable THEN m.out
                    ELSE UNION {Variant(m.type_name, r) : r \in Draws}
         IN  {[value |-> x, stage |-> "synthetic"] : x \in out}
    ELSE {[value |-> arg_type, stage |-> "literal"]}

generate_random_arg(arg_type) ==
    LET hit == {r \in Draws : r < DICT_MIX_RATIO}
        found == {d \in get_value_from_dictionary : Truthy(d)}
        falls == \/ Draws \ hit # {}
                 \/ hit # {} /\ get_value_from_dictionary \ found # {}
    IN  (IF hit # {} THEN {[value |-> d.v, stage |-> "dictionary"] : d \in found}
         ELSE {})
        \cup (IF falls THEN Synthetic(arg_type) ELSE {})

\* lines 252-256
available_commands ==
    LET kept == {cmd \in DOMAIN REDIS_COMMANDS : cmd \notin EXCLUDED_COMMANDS}
    IN  IF kept = {} THEN DOMAIN REDIS_COMMANDS ELSE kept

\* line 259 without its filter: the focus list as configured
focus_candidates_unfiltered == FOCUS_COMMANDS

\* line 259
focus_candidates ==
    LET NotExcluded(cmd) == cmd \notin EXCLUDED_COMMANDS
    IN  SelectSeq(FOCUS_COMMANDS, NotExcluded)

\* lines 262-276: the names the command can be drawn as
ChooseCommand ==
    IF focus_candidates # <<>>
    THEN IF Len(focus_candidates) = 1
         THEN (IF \E r \in Draws : r < 30 THEN {focus_candidates[1]} ELSE {})
              \cup (IF \E r \in Draws : ~(r < 30) THEN available_commands ELSE {})
         ELSE (IF \E r \in Draws : r < 50 THEN Range(focus_candidates) ELSE {})
              \cup (IF \E r \in Draws : ~(r < 50) THEN available_commands ELSE {})
    ELSE available_commands

\* args.append(x); the log is left alone
Emit(acc, x) == [acc EXCEPT !.args = Append(@, x)]

\* args.append(generate_random_arg(arg_type)), for each value it can return
EmitGenerated(acc, arg_type) ==
    {[Emit(acc, o.value) EXCEPT
         !.calls = Append(@, [arg_type |-> arg_type, value |-> o.value,
                              stage |-> o.stage, at |-> Len(acc.args) + 1])]
        : o \in generate_random_arg(arg_type)}

\* lines 281-282 with the schema walked from its last entry to its first
RECURSIVE RequiredArgsReversed(_, _)
RequiredArgsReversed(specs, acc) ==
    IF specs = <<>> THEN {acc}
    ELSE UNION {RequiredArgsReversed(SubSeq(specs, 1, Len(specs) - 1), a) :
                   a \in EmitGenerated(acc, specs[Len(specs)])}

\* lines 281-282
RECURSIVE RequiredArgs(_, _)
RequiredArgs(specs, acc) ==
    IF specs = <<>> THEN {acc}
    ELSE UNION {RequiredArgs(Tail(specs), a) : a \in EmitGenerated(acc, specs[1])}

\* lines 291-301: one optional spec
OptionalArg(opt_arg, acc) ==
    LET noted == [acc EXCEPT !.optlog =
                     Append(@, [spec |-> opt_arg, at |-> Len(acc.args) + 1])]
    IN  IF Contains(opt_arg, Ord[" "])
        THEN LET opt_parts == Split(opt_arg, Ord[" "])
             IN  IF Contains(opt_parts[1], Ord["|"])
                 THEN {Emit(noted, c) : c \in Range(Split(opt_parts[1], Ord["|"]))}
                 ELSE IF Len(opt_parts) > 1
                 THEN EmitGenerated(Emit(noted, opt_parts[1]), opt_parts[2])
                 ELSE {Emit(noted, opt_parts[1])}
        ELSE {Emit(noted, opt_arg)}

\* random.choices(xs, k=k): positions drawn with replacement
SamplesRepeated(xs) ==
    {[i \in DOMAIN f |-> xs[f[i]]] :
        f \in UNION {[1..k -> DOMAIN xs] : k \in 0..Len(xs)}}

\* random.sample(xs, k) for every k in 0..len(xs)
Samples(xs) ==
    {[i \in DOMAIN f |-> xs[f[i]]] :
        f \in {g \in UNION {[1..k -> DOMAIN xs] : k \in 0..Len(xs)} :
                  \A i, j \in DOMAIN g : i # j => g[i] # g[j]}}

RECURSIVE OptionalArgs(_, _)
OptionalArgs(sample, acc) ==
    IF sample = <<>> THEN {acc}
    ELSE UNION {OptionalArgs(Tail(sample), a) : a \in OptionalArg(sample[1], acc)}

\* lines 285-301
WithOptional(optional_args, acc) ==
    (IF optional_args # <<>> /\ (\E r \in Draws : r < 70)
     THEN UNION {OptionalArgs(sample, acc) : sample \in Samples(optional_args)}
     ELSE {})
    \cup (IF optional_args = <<>> \/ (\E r \in Draws : ~(r < 70)) THEN {acc} ELSE {})

\* lines 278-303
BuildArgs(command_info) ==
    UNION {WithOptional(command_info.optional_args, acc) :
              acc \in RequiredArgs(command_info.args,
                                   [args |-> <<>>, calls |-> <<>>, optlog |-> <<>>])}

generate_random_command ==
    UNION {{[command |-> c, args |-> b.args, calls |-> b.calls, optlog |-> b.optlog] :
               b \in BuildArgs(REDIS_COMMANDS[c])} : c \in ChooseCommand}

(***************************************************************************)
(* The parts at rest.                                                      *)
(***************************************************************************)
IdleCodec ==
    value = PyNone /\ wire = <<>> /\ decoded = PyNone /\ cpc = "idle" /\ cursor = <<>>

\* no exclusions, no focus, the default mix ratio, no literals, the default
\* maximum (redis_fuzzer.py, line 27)
IdleConfig ==
    /\ EXCLUDED_COMMANDS = {}
    /\ FOCUS_COMMANDS = <<>>
    /\ DICT_MIX_RATIO = 90
    /\ DICT_VALUES = <<>>
    /\ INPUT_VALUES = <<>>
    /\ MAX_COMMANDS_PER_TEST = 20

IdleGen ==
    command = <<>> /\ args = <<>> /\ calls = <<>> /\ optlog = <<>> /\ gpc = "idle"

\* nothing parsed, nothing drawn
NoBuild ==
    [parsed_commands |-> <<>>, test_case_seed |-> PyNone, num_commands |-> 0,
     chosen |-> <<>>, generated |-> <<>>, random |-> <<>>]

\* no TestCase has been saved or loaded
IdleFile == file = PyNone /\ loaded = PyNone /\ replayed = <<>>

\* no call of execute_command is observed chunk by chunk
IdleConn == received = <<>> /\ waited = 0 /\ pending = <<>> /\ origin = <<>>

\* AFLFuzzer.__init__, redis_fuzzer.py lines 367-376, before run is called
IdleHarness ==
    /\ pc = "idle"
    /\ afl_input = PyNone
    /\ test_cases = <<>>
    /\ results = <<>>
    /\ stats = [total_executions |-> 0, successful_executions |-> 0,
                error_executions |-> 0, timeouts |-> 0]
    /\ sock = "None"
    /\ idx = 0
    /\ sent = <<>>
    /\ build = NoBuild
    /\ reads = <<>>
    /\ IdleFile /\ IdleConn

(***************************************************************************)
(* The generator on its own: under every configuration of a small family,  *)
(* generate_random_command is called.                                      *)
(***************************************************************************)
ExcludedChoices ==
    { {}, {GET}, {SCAN, EXPIRE}, {S(<<"D", "E", "B", "U", "G">>)},
      DOMAIN REDIS_COMMANDS, DOMAIN REDIS_COMMANDS \ {PING} }

\* FOCUS_COMMANDS holds catalog names only (redis_commands.py, lines 793-800)
FocusChoices ==
    { <<>>, <<GET>>, <<SCAN>>, <<GET, PING>>, <<GET, GET>>, <<EXPIRE, ACL_CAT>> }

RatioChoices == {0, 90, 100}

\* redis_fuzzer.py, lines 41-43: what one line of the dictionary file adds
DictLine(line) ==
    LET l == StrStrip(line)
    IN  IF l # <<>> /\ l[1] = Ord["\""] /\ l[Len(l)] = Ord["\""]
        THEN <<PySlice(l, 1, -1)>> ELSE <<>>

\* redis_fuzzer.py, lines 36-45
RECURSIVE LoadDictionary(_)
LoadDictionary(lines) ==
    IF lines = <<>> THEN <<>>
    ELSE DictLine(lines[1]) \o LoadDictionary(Tail(lines))

\* dictionary files: none, one entry, an empty entry, both, a comment and an
\* entry, a lone quote
DictFiles ==
    { <<>>,
      <<S(<<"\"", "d", "\"", "\n">>)>>,
      <<S(<<"\"", "\"", "\n">>)>>,
      <<S(<<"\"", "\"", "\n">>), S(<<"\"", "d", "\"", "\n">>)>>,
      <<S(<<"#", " ", "c", "\n">>), S(<<"\"", "d", "\"", "\n">>)>>,
      <<S(<<"\"">>)>> }

DictChoices == {LoadDictionary(f) : f \in DictFiles}

InputChoices == { <<>>, <<S(<<"i">>)>> }

GenInit ==
    /\ IdleCodec /\ IdleGen /\ IdleHarness
    /\ EXCLUDED_COMMANDS \in ExcludedChoices
    /\ FOCUS_COMMANDS \in FocusChoices
    /\ DICT_MIX_RATIO \in RatioChoices
    /\ DICT_VALUES \in DictChoices
    /\ INPUT_VALUES \in InputChoices
    /\ MAX_COMMANDS_PER_TEST = 20

GenerateRandomCommand ==
    /\ gpc = "idle"
    /\ \E r \in generate_random_command :
          /\ command' = r.command
          /\ args' = r.args
          /\ calls' = r.calls
          /\ optlog' = r.optlog
    /\ gpc' = "returned"
    /\ UNCHANGED <<codecVars, configVars, connVars, fileVars, harnessVars>>

GenNext == GenerateRandomCommand

SpecGen == GenInit /\ [][GenNext]_vars

(***************************************************************************)
(* Claims about the generator, checked under SpecGen.                      *)
(***************************************************************************)

\* C3, as claimed: generate_random_command never returns a command name
\* that is in the exclusion set, for every catalog, every exclusion set and
\* every focus set.
C3_NeverExcluded == gpc = "returned" => command \notin EXCLUDED_COMMANDS

\* C3, amended: generate_random_command never returns a command name that
\* is in the exclusion set, for every exclusion set that leaves at least one
\* catalog command and every focus set; when every catalog command is
\* excluded it draws from the whole catalog.
C3_NeverExcludedUnlessAll ==
    (gpc = "returned" /\ DOMAIN REDIS_COMMANDS \ EXCLUDED_COMMANDS # {})
        => command \notin EXCLUDED_COMMANDS

\* a command was returned while a focus command is excluded and another
\* catalog command is not
C3_Witness ==
    /\ gpc = "returned"
    /\ DOMAIN REDIS_COMMANDS \ EXCLUDED_COMMANDS # {}
    /\ \E i \in DOMAIN FOCUS_COMMANDS : FOCUS_COMMANDS[i] \in EXCLUDED_COMMANDS

\* C6: for every generated command the argument list has at least N
\* entries, N the number of required ArgSpecs of its schema; entry i (i <= N)
\* is the value generate_random_arg produced for required ArgSpec i, in
\* schema order; optional specs are expanded only after position N.
C6_RequiredFirst ==
    gpc = "returned" =>
        LET required == REDIS_COMMANDS[command].args
            N == Len(required)
        IN  /\ Len(args) >= N
            /\ Len(calls) >= N
            /\ \A i \in 1..N :
                  /\ calls[i].arg_type = required[i]
                  /\ calls[i].at = i
                  /\ args[i] = calls[i].value
            /\ \A j \in DOMAIN optlog : optlog[j].at > N

\* EXPIRE was generated with its two required arguments and its option
C6_Witness ==
    gpc = "returned" /\ command = EXPIRE /\ Len(args) = 3 /\ Len(optlog) = 1

\* C7: with mix ratio 1.0 and a non-empty literal dictionary, every value
\* returned by generate_random_arg is an element of the dictionary or of the
\* runtime corpus; the synthetic stage is never entered.
C7_OnlyDictionary ==
    (gpc = "returned" /\ DICT_MIX_RATIO = 100 /\ DICT_VALUES # <<>>) =>
        \A i \in DOMAIN calls :
            /\ calls[i].stage = "dictionary"
            /\ calls[i].value \in Range(DICT_VALUES) \cup Range(INPUT_VALUES)

(***************************************************************************)
(* The codec on its own: a value is encoded, put on the wire as UTF-8 and  *)
(* decoded again; a reply buffer is decoded.                               *)
(***************************************************************************)
MaxInt == 10
MaxListLen == 2

SeqsUpTo(X, n) == UNION {[1..k -> X] : k \in 0..n}

TextSamples ==
    {<<>>, S(<<"a">>), S(<<"O", "K">>), <<233>>, <<97, 8364>>}

Scalars ==
    {PyStr(x) : x \in TextSamples} \cup {PyInt(n) : n \in (-MaxInt)..MaxInt}
        \cup {PyNone}

InnerLists ==
    { PyList(<<>>),
      PyList(<<PyInt(1), PyNone>>),
      PyList(<<PyStr(S(<<"a">>)), PyList(<<PyInt(0)>>)>>) }

Values ==
    Scalars \cup {PyList(xs) : xs \in SeqsUpTo(Scalars \cup InnerLists, MaxListLen)}

\* replies of a server, whole
Frames ==
    { S(<<"+", "O", "K", "\r", "\n">>),
      S(<<"-", "O", "K", "\r", "\n">>),
      S(<<"-", "E", "R", "R", " ", "x", "\r", "\n">>),
      S(<<":", "5", "\r", "\n">>),
      S(<<"$", "3", "\r", "\n", "f", "o", "o", "\r", "\n">>),
      S(<<"$", "1", "0", "\r", "\n", "a", "b", "c">>),
      S(<<"$", "-", "1", "\r", "\n">>),
      S(<<"*", "-", "1", "\r", "\n">>),
      S(<<"*", "2", "\r", "\n", "$", "3", "\r", "\n", "f", "o", "o", "\r", "\n",
          ":", "1", "\r", "\n">>),
      S(<<"*", "2", "\r", "\n", "-", "E", "\r", "\n", "+", "E", "\r", "\n">>),
      \* malformed: a length, an integer and a count that are no numbers, and
      \* a byte that is not UTF-8
      S(<<"$", "x", "\r", "\n", "a", "b", "\r", "\n">>),
      S(<<":", "z", "\r", "\n">>),
      S(<<"*", "q", "\r", "\n">>),
      <<Ord["+"], 255>> \o CRLF }

\* and cut short at every point
Buffers == UNION {{PySlice(f, 0, k) : k \in 0..Len(f)} : f \in Frames}

CodecInit ==
    /\ IdleConfig /\ IdleGen /\ IdleHarness
    /\ decoded = PyNone
    /\ cursor = <<>>
    /\ \/ cpc = "value" /\ value \in Values /\ wire = <<>>
       \/ cpc = "reply" /\ value = PyNone /\ wire \in Buffers

\* RedisClient.execute_command, lines 179-183: the value is encoded and the
\* text put on the wire as UTF-8
Encode ==
    /\ cpc = "value"
    /\ wire' = Utf8Encode(encode_resp(value))
    /\ cpc' = "sent"
    /\ UNCHANGED <<value, decoded, cursor, configVars, connVars, fileVars, genVars, harnessVars>>

\* RedisClient.execute_command, line 196
Decode ==
    /\ cpc \in {"sent", "reply"}
    /\ decoded' = decode_resp(wire)
    /\ cpc' = IF cpc = "sent" THEN "roundtrip" ELSE "decoded"
    /\ UNCHANGED <<value, wire, cursor, configVars, connVars, fileVars, genVars, harnessVars>>

\* decode_resp, lines 87-135, taken on its own: the branch of an array run
\* on a buffer that begins with '*' and a count
DecodeArray ==
    /\ cpc = "reply"
    /\ wire # <<>>
    /\ wire[1] = Ord["*"]
    /\ CanParseInt(SplitFirst(PyFrom(wire, 1), CRLF))
    /\ ParseInt(SplitFirst(PyFrom(wire, 1), CRLF)) # -1
    /\ cursor' = Positions(AfterFirst(wire, CRLF),
                           ParseInt(SplitFirst(PyFrom(wire, 1), CRLF)), 0)
    /\ decoded' = DecodeElements(AfterFirst(wire, CRLF),
                                 ParseInt(SplitFirst(PyFrom(wire, 1), CRLF)), 0, <<>>)
    /\ cpc' = "elements"
    /\ UNCHANGED <<value, wire, configVars, connVars, fileVars, genVars, harnessVars>>

CodecNext == Encode \/ Decode \/ DecodeArray

SpecCodec == CodecInit /\ [][CodecNext]_vars

(***************************************************************************)
(* Claims about the codec, checked under SpecCodec.                        *)
(***************************************************************************)

\* C1: for every value v built from text strings, integers, nil and nested
\* lists of these, decode_resp applied to the bytes of encode_resp(v)
\* returns v exactly.
C1_RoundTrip == cpc = "roundtrip" => decoded = value

\* the reference RESP framing of a value: a bulk string carries the number
\* of bytes it has on the wire
RECURSIVE RefFrame(_)
RefFrame(x) ==
    IF x.t = "str"
    THEN S(<<"$">>) \o IntStr(Len(Utf8Encode(x.v))) \o CRLF \o Utf8Encode(x.v) \o CRLF
    ELSE IF x.t = "int" THEN S(<<":">>) \o IntStr(x.v[1]) \o CRLF
    ELSE IF x.t = "None" THEN S(<<"$", "-", "1">>) \o CRLF
    ELSE LET F[i \in 0..Len(x.v)] ==
                 IF i = 0 THEN S(<<"*">>) \o IntStr(Len(x.v)) \o CRLF
                 ELSE F[i - 1] \o RefFrame(x.v[i])
         IN  F[Len(x.v)]

\* C9: encode_resp produces exactly the reference RESP framing: a text value
\* becomes '$' + its length in bytes as sent on the wire + CRLF + the bytes +
\* CRLF, an integer ':' + digits + CRLF, nil '$-1' CRLF, and a list '*' +
\* element count + CRLF followed by the encodings of its elements in order.
C9_ReferenceFraming == cpc \in {"sent", "roundtrip"} => wire = RefFrame(value)

\* a bulk-string frame that declares more bytes than the buffer holds
TruncatedBulkFrame(b) ==
    /\ b # <<>>
    /\ b[1] = Ord["$"]
    /\ PyFind(b, CRLF, 0) # -1
    /\ CanParseInt(PySlice(b, 1, PyFind(b, CRLF, 0)))
    /\ ParseInt(PySlice(b, 1, PyFind(b, CRLF, 0))) > Len(b) - (PyFind(b, CRLF, 0) + 2)

\* the same, at top level or as the first element of an array
TruncatedBulk(b) ==
    \/ TruncatedBulkFrame(b)
    \/ /\ b # <<>>
       /\ b[1] = Ord["*"]
       /\ TruncatedBulkFrame(AfterFirst(b, CRLF))

\* C5: decoding a bulk-string frame whose declared length exceeds the bytes
\* available (at top level or as an array element) yields a defined error
\* value, not a shortened string, and raises no exception.
C5_TruncatedBulkIsError ==
    (cpc = "decoded" /\ TruncatedBulk(wire)) => decoded.t = "dict"

\* C10: a reply whose first byte is '-' decodes to the tagged error value
\* {"error": text up to CRLF}, distinguishable from the decoding of a
\* simple-string reply carrying the same text.
C10_ErrorReplyTagged ==
    (cpc = "decoded" /\ wire # <<>> /\ wire[1] = Ord["-"]
                     /\ PyFind(wire, CRLF, 0) # -1)
        => decoded = PyError(Utf8Decode(SplitFirst(Tail(wire), CRLF)))

(***************************************************************************)
(* AFLFuzzer: the input is read and parsed into a test case, the test case  *)
(* is executed against the server.                                         *)
(***************************************************************************)
\* the most commands of a test in the runs that execute it, and in the runs
\* that only build it
MaxCommands == 2
MaxTarget == 3

\* str.upper of one code point below 256
UpperChar(c) ==
    IF c \in 97..122 \/ (c \in 224..254 /\ c # 247) THEN <<c - 32>>
    ELSE IF c = 223 THEN <<83, 83>>
    ELSE IF c = 181 THEN <<924>>
    ELSE IF c = 255 THEN <<376>>
    ELSE <<c>>

\* str.upper
RECURSIVE Upper(_)
Upper(s) == IF s = <<>> THEN <<>> ELSE UpperChar(s[1]) \o Upper(Tail(s))

\* lines 409-423 without the test at line 422: every first word is taken
\* for a command
ParseLineUnchecked(line) ==
    IF line = <<>> THEN <<>>
    ELSE LET parts == Split(StrStrip(Utf8Decode(line)), Ord[" "])
         IN  <<[command |-> Upper(parts[1]),
                args |-> IF Len(parts) > 1 THEN Tail(parts) ELSE <<>>]>>

\* lines 409-423 without the strip() of line 414
ParseLineUnstripped(line) ==
    IF line = <<>> THEN <<>>
    ELSE LET parts == Split(Utf8Decode(line), Ord[" "])
             name == Upper(parts[1])
         IN  IF name \in DOMAIN REDIS_COMMANDS /\ name \notin EXCLUDED_COMMANDS
             THEN <<[command |-> name,
                     args |-> IF Len(parts) > 1 THEN Tail(parts) ELSE <<>>]>>
             ELSE <<>>

\* lines 409-423, were a name of two words looked up in the catalog too
ParseLineTwoWords(line) ==
    IF line = <<>> THEN <<>>
    ELSE LET parts == Split(StrStrip(Utf8Decode(line)), Ord[" "])
             name == IF Len(parts) > 1
                        /\ Upper(parts[1] \o S(<<" ">>) \o parts[2]) \in DOMAIN REDIS_COMMANDS
                     THEN Upper(parts[1] \o S(<<" ">>) \o parts[2])
                     ELSE Upper(parts[1])
             rest == IF Contains(name, Ord[" "]) THEN Tail(Tail(parts))
                     ELSE IF Len(parts) > 1 THEN Tail(parts) ELSE <<>>
         IN  IF name \in DOMAIN REDIS_COMMANDS /\ name \notin EXCLUDED_COMMANDS
             THEN <<[command |-> name, args |-> rest]>>
             ELSE <<>>

\* parse_afl_input, lines 409-423: what one line of the input adds to
\* parsed_commands
ParseLine(line) ==
    IF line = <<>> THEN <<>>
    ELSE LET parts == Split(StrStrip(Utf8Decode(line)), Ord[" "])
             name == Upper(parts[1])
             rest == IF Len(parts) > 1 THEN Tail(parts) ELSE <<>>
         IN  IF name \in DOMAIN REDIS_COMMANDS /\ name \notin EXCLUDED_COMMANDS
             THEN <<[command |-> name, args |-> rest]>>
             ELSE <<>>

RECURSIVE ParseLines(_)
ParseLines(lines) ==
    IF lines = <<>> THEN <<>>
    ELSE ParseLine(lines[1]) \o ParseLines(Tail(lines))

\* parse_afl_input, lines 406-423
parsed_commands(input) == ParseLines(Split(input, Ord["\n"]))

\* k entries at any positions, the same one more than once too
SampleWithReplacement(xs, k) ==
    {[i \in 1..k |-> xs[f[i]]] : f \in [1..k -> DOMAIN xs]}

\* random.sample(xs, k): k entries at distinct positions, in any order
Sample(xs, k) ==
    {[i \in 1..k |-> xs[f[i]]] :
        f \in {g \in [1..k -> DOMAIN xs] : \A i, j \in 1..k : i # j => g[i] # g[j]}}

\* random.shuffle(xs): every order of the entries
Shuffle(xs) == Sample(xs, Len(xs))

\* what one call of generate_random_command gives the test case
GeneratedCommands ==
    {[command |-> r.command, args |-> r.args] : r \in generate_random_command}

\* lines 445-447 with an if for the while: one random command is added
PadOnce(cases, num_commands) ==
    IF Len(cases) < num_commands
    THEN {Append(cases, g) : g \in GeneratedCommands}
    ELSE {cases}

\* lines 445-447: random commands are added until there are num_commands
RECURSIVE Pad(_, _)
Pad(cases, num_commands) ==
    IF Len(cases) < num_commands
    THEN UNION {Pad(Append(cases, g), num_commands) : g \in GeneratedCommands}
    ELSE {cases}

\* TestCase.generate_test_case, lines 315-327
generate_test_case(num_commands) == Pad(<<>>, num_commands)

\* parse_afl_input, lines 438-450, for one value of num_commands: the
\* commands taken from the input and the random ones added to them
MixedTestCases(parsed, num_commands) ==
    IF parsed # <<>>
    THEN LET num_parsed == Min(Len(parsed), (num_commands \div 2) + 1)
         IN  UNION {{[chosen |-> chosen,
                      generated |-> SubSeq(cases, Len(chosen) + 1, Len(cases))] :
                        cases \in Pad(chosen, num_commands)} :
                            chosen \in Sample(parsed, num_parsed)}
    ELSE {[chosen |-> <<>>, generated |-> cases] :
             cases \in generate_test_case(num_commands)}

\* lines 428-432: the seed is the first four bytes, read as a little-endian
\* integer, of an input that has four.  The integer can exceed what the
\* model's integers hold; the four bytes, which it is one-to-one with, stand
\* for it.
test_case_seed(input) ==
    IF Len(input) >= 4 THEN PyBytes(PySlice(input, 0, 4)) ELSE PyNone

\* n times x
Repeat(x, n) == [i \in 1..n |-> x]

\* the calls on the random source, were the seeding to follow the draw of
\* num_commands
RandomCallsSeedLate(seed, mix) ==
    <<"randint">>
    \o (IF seed # PyNone THEN <<"seed">> ELSE <<>>)
    \o (IF mix.chosen # <<>> THEN <<"sample">> ELSE <<>>)
    \o Repeat("generate_random_command", Len(mix.generated))
    \o <<"shuffle">>

\* the calls on the random source, were the padded list shuffled again
RandomCallsShuffleTwice(seed, mix) ==
    (IF seed # PyNone THEN <<"seed">> ELSE <<>>)
    \o <<"randint">>
    \o (IF mix.chosen # <<>> THEN <<"sample">> ELSE <<>>)
    \o Repeat("generate_random_command", Len(mix.generated))
    \o <<"shuffle", "shuffle">>

\* TestCase.__init__, lines 309-311, then lines 436-453: the calls on the
\* random source, in order
RandomCalls(seed, mix) ==
    (IF seed # PyNone THEN <<"seed">> ELSE <<>>)
    \o <<"randint">>
    \o (IF mix.chosen # <<>> THEN <<"sample">> ELSE <<>>)
    \o Repeat("generate_random_command", Len(mix.generated))
    \o <<"shuffle">>

\* parse_afl_input, lines 404-456, for a non-empty input: its locals, the
\* calls it made on the random source and what it leaves in self.test_cases.
\* random.randint(1, MAX_COMMANDS_PER_TEST) raises when the maximum is below
\* 1, and there is no outcome then.
parse_afl_input(input) ==
    LET parsed == parsed_commands(input)
        seed == test_case_seed(input)
    IN  UNION {UNION {{[parsed_commands |-> parsed,
                        test_case_seed |-> seed,
                        num_commands |-> n,
                        chosen |-> mix.chosen,
                        generated |-> mix.generated,
                        random |-> RandomCalls(seed, mix),
                        test_cases |-> cases] :
                          cases \in Shuffle(mix.chosen \o mix.generated)} :
                              mix \in MixedTestCases(parsed, n)} :
                                  n \in 1..MAX_COMMANDS_PER_TEST}

\* what a record of parse_afl_input says of the building
BuildOf(r) ==
    [parsed_commands |-> r.parsed_commands, test_case_seed |-> r.test_case_seed,
     num_commands |-> r.num_commands, chosen |-> r.chosen,
     generated |-> r.generated, random |-> r.random]

(***************************************************************************)
(* RedisClient.  The server and the network are the environment: whether   *)
(* the socket can be made and connected, whether a send goes through, the  *)
(* chunks recv returns and whether the peer then closes or stays silent.   *)
(***************************************************************************)
\* RedisClient.connect, lines 151-161: self.sock afterwards.  "None" when
\* socket.socket() itself raised, "unconnected" when the socket object was
\* assigned at line 154 and settimeout or connect raised, "connected"
\* otherwise.
ConnectOutcomes == {"None", "unconnected", "connected"}

\* the chunks recv returns for one command: nothing, a reply in one chunk
\* and in two, a bulk string whose first chunk ends with the length line
ReplyChunks ==
    { <<>>,
      <<S(<<"+", "O", "K", "\r", "\n">>)>>,
      <<S(<<"-", "E">>), S(<<"R", "R", "\r", "\n">>)>>,
      <<S(<<"$", "3", "\r", "\n">>), S(<<"f", "o", "o", "\r", "\n">>)>> }

\* what the environment does during one call of execute_command: the
\* outcome of a connect, should one be made, whether sendall goes through,
\* the chunks that arrive and whether the peer then closes.  What follows a
\* failed step is not looked at and is left at a fixed value.
Environments ==
    [connect : {"None", "unconnected"}, send : {FALSE}, chunks : {<<>>},
     closed : {FALSE}]
    \cup [connect : {"connected"}, send : {FALSE}, chunks : {<<>>}, closed : {FALSE}]
    \cup [connect : {"connected"}, send : {TRUE}, chunks : ReplyChunks,
          closed : BOOLEAN]

NoConnection == S(<<"N", "o", " ", "c", "o", "n", "n", "e", "c", "t", "i", "o", "n", " ", "t", "o", " ", "R", "e", "d", "i", "s">>)
ExecutionError == S(<<"C", "o", "m", "m", "a", "n", "d", " ", "e", "x", "e", "c", "u", "t", "i", "o", "n", " ", "e", "r", "r", "o", "r">>)
UnknownError == S(<<"U", "n", "k", "n", "o", "w", "n", " ", "e", "r", "r", "o", "r">>)

\* execute_command, lines 186-193: chunks are appended until the data holds
\* a CRLF or recv returns nothing (the peer closed); recv raises
\* socket.timeout when nothing arrives
RECURSIVE Receive(_, _, _)
Receive(data, chunks, closed) ==
    IF chunks = <<>>
    THEN IF closed THEN PyBytes(data) ELSE PyRaise("socket.timeout")
    ELSE LET more == data \o chunks[1]
         IN  IF PyFind(more, CRLF, 0) # -1 THEN PyBytes(more)
             ELSE Receive(more, Tail(chunks), closed)

\* execute_command, lines 199-200: an exception of decode_resp is caught
ReplyOrUnknownError(reply) ==
    IF reply.t = "raise" THEN PyError(UnknownError) ELSE reply

\* execute_command, lines 181-193: how the call went once sendall was called
StopOf(now, env, data) ==
    IF now = "unconnected" \/ ~env.send THEN "send_error"
    ELSE IF data.t = "raise" THEN "timeout"
    ELSE IF PyFind(data.v, CRLF, 0) # -1 THEN "crlf"
    ELSE "closed"

\* execute_command, lines 179-200: resp_command is sent and data is what the
\* receive loop made of the chunks; an error of the socket is caught at
\* lines 197-198
Exchange(now, env, resp_command, data) ==
    [result |-> IF now = "unconnected" \/ ~env.send \/ data.t = "raise"
                THEN PyError(ExecutionError)
                ELSE ReplyOrUnknownError(decode_resp(data.v)),
     sock |-> now, tried |-> TRUE, wire |-> resp_command,
     stop |-> StopOf(now, env, data),
     data |-> IF StopOf(now, env, data) \in {"crlf", "closed"} THEN data.v ELSE <<>>]

\* execute_command, lines 172-200: the value returned, self.sock afterwards,
\* whether sendall was called, and how the call went: it returned early
\* without a connection (line 175), sendall raised (line 181), recv raised
\* socket.timeout (line 188), recv returned nothing (lines 189-190) or the
\* data held a CRLF (lines 192-193); data is what the loop held on leaving it
execute_command(s, name, arguments, env) ==
    LET now == IF s = "None" THEN env.connect ELSE s
    IN  IF s = "None" /\ now # "connected"
        THEN [result |-> PyError(NoConnection), sock |-> now, tried |-> FALSE,
              wire |-> <<>>, stop |-> "no_connection", data |-> <<>>]
        ELSE Exchange(now, env,
                      Utf8Encode(encode_resp(PyList(<<PyStr(name)>> \o
                          [i \in DOMAIN arguments |-> PyStr(arguments[i])]))),
                      Receive(<<>>, env.chunks, env.closed))

(***************************************************************************)
(* AFLFuzzer.run and TestCase.execute_test_case, step by step.             *)
(***************************************************************************)
\* inputs AFL++ can hand over: nothing, the two-line example, lower case,
\* an excluded and a bare command, an unknown command
AflInputs ==
    { <<>>,
      S(<<"G", "E", "T", " ", "f", "o", "o", "\n", "B", "A", "D", "C", "M", "D", " ", "x", "\n">>),
      S(<<"g", "e", "t", " ", "f", "o", "o">>),
      S(<<"S", "C", "A", "N", " ", "0", "\n", "P", "I", "N", "G">>),
      S(<<"B", "A", "D", "C", "M", "D", " ", "x">>) }

\* further inputs for the building of the test case: padding and a double
\* space, three accepted lines, three bytes, a byte that is not UTF-8
ParseInputs ==
    { S(<<" ", " ", "G", "E", "T", " ", " ", "a", "\r", "\n">>),
      S(<<"G", "E", "T", " ", "a", "\n", "G", "E", "T", " ", "b", "\n", "P", "I", "N", "G", "\n">>),
      S(<<"G", "E", "T">>),
      S(<<"G", "E", "T", " ">>) \o <<255>> \o S(<<"b">>),
      \* a line that begins with a catalog name of two words
      S(<<"a", "c", "l", " ", "c", "a", "t", " ", "x", "\n", "G", "E", "T", " ", "a">>) }

\* everything but GET and PING is excluded, or everything but PING
HarnessExcluded ==
    { DOMAIN REDIS_COMMANDS \ {GET, PING}, DOMAIN REDIS_COMMANDS \ {PING} }

\* the exclusions of the harness, or everything but GET and ACL CAT
ParseExcluded ==
    HarnessExcluded \cup { DOMAIN REDIS_COMMANDS \ {GET, ACL_CAT} }

Init ==
    /\ IdleCodec /\ IdleGen
    /\ EXCLUDED_COMMANDS \in HarnessExcluded
    /\ FOCUS_COMMANDS = <<>>
    /\ DICT_MIX_RATIO = 0
    /\ DICT_VALUES = <<>>
    /\ INPUT_VALUES = <<>>
    /\ MAX_COMMANDS_PER_TEST \in 0..MaxCommands
    /\ pc = "start"
    /\ afl_input = PyNone
    /\ test_cases = <<>>
    /\ results = <<>>
    /\ stats = [total_executions |-> 0, successful_executions |-> 0,
                error_executions |-> 0, timeouts |-> 0]
    /\ sock = "None"
    /\ idx = 0
    /\ sent = <<>>
    /\ build = NoBuild
    /\ reads = <<>>
    /\ IdleFile /\ IdleConn

\* read_afl_input, lines 388-396: stdin is read, or reading raises
ReadInput(inputs) ==
    /\ pc = "start"
    /\ \/ \E b \in inputs : afl_input' = PyBytes(b) /\ pc' = "read"
       \/ afl_input' = afl_input /\ pc' = "fallback"
    /\ UNCHANGED <<codecVars, configVars, connVars, fileVars, genVars, test_cases, results, stats, sock,
                   idx, sent, build, reads>>

ReadAflInput == ReadInput(AflInputs)

\* parse_afl_input, lines 398-463.  An empty input is refused.  The try
\* block raises only when MAX_COMMANDS_PER_TEST is below 1 (random.randint,
\* line 436, after the seeding of line 433); the handler of lines 457-463
\* then calls generate_test_case, whose random.randint raises again, and the
\* exception leaves run.
ParseAflInput ==
    /\ pc = "read"
    /\ IF afl_input.v = <<>>
       THEN /\ test_cases' = test_cases /\ build' = build /\ pc' = "fallback"
       ELSE IF MAX_COMMANDS_PER_TEST < 1
       THEN /\ test_cases' = test_cases
            /\ build' = [build EXCEPT
                  !.parsed_commands = parsed_commands(afl_input.v),
                  !.test_case_seed = test_case_seed(afl_input.v),
                  !.random = IF test_case_seed(afl_input.v) # PyNone
                             THEN <<"seed">> ELSE <<>>]
            /\ pc' = "crashed"
       ELSE \E r \in parse_afl_input(afl_input.v) :
                /\ test_cases' = r.test_cases
                /\ build' = BuildOf(r)
                /\ pc' = "parsed"
    /\ UNCHANGED <<codecVars, configVars, connVars, fileVars, genVars, afl_input, results, stats, sock,
                   idx, sent, reads>>

\* run, lines 527-530, and generate_test_case, lines 315-327: without input
\* the test case is all random; random.randint raises when the maximum is
\* below 1
GenerateTestCase ==
    /\ pc = "fallback"
    /\ IF MAX_COMMANDS_PER_TEST < 1
       THEN /\ test_cases' = test_cases /\ build' = build /\ pc' = "crashed"
       ELSE \E n \in 1..MAX_COMMANDS_PER_TEST :
                /\ test_cases' \in generate_test_case(n)
                /\ build' = [build EXCEPT
                      !.num_commands = n,
                      !.generated = test_cases',
                      !.random = <<"randint">> \o Repeat("generate_random_command", n)]
                /\ pc' = "parsed"
    /\ UNCHANGED <<codecVars, configVars, connVars, fileVars, genVars, afl_input, results, stats, sock,
                   idx, sent, reads>>

\* execute_tests, lines 465-494: the client is made; without a socket object
\* the run is given up and every command counted as an error
Connect ==
    /\ pc = "parsed"
    /\ \E o \in ConnectOutcomes :
          /\ sock' = o
          /\ IF o = "None"
             THEN /\ stats' = [stats EXCEPT !.error_executions = @ + Len(test_cases)]
                  /\ pc' = "gave_up"
             ELSE /\ stats' = stats
                  /\ pc' = "executing"
    /\ UNCHANGED <<codecVars, configVars, connVars, fileVars, genVars, afl_input, test_cases, results,
                   idx, sent, build, reads>>

\* lines 504 and 342, were a failed command to leave no Result
RecordResultUnlessFailed(rs, c, r) ==
    IF r.t = "dict" THEN rs
    ELSE Append(rs, [command |-> c.command, args |-> c.args, result |-> r])

\* lines 504 and 342, were the newest Result put at the head of the list
RecordResultFirst(rs, c, r) ==
    <<[command |-> c.command, args |-> c.args, result |-> r]>> \o rs

\* lines 504 and 342: the Result of one command
RecordResult(rs, c, r) ==
    Append(rs, [command |-> c.command, args |-> c.args, result |-> r])

\* execute_tests, lines 496-516: one turn of the loop.  execute_command
\* catches every Exception, so the handlers at lines 507-514 are not entered
\* and the command is counted as successful whatever it returned.
ExecuteCommand ==
    /\ pc = "executing"
    /\ idx < Len(test_cases)
    /\ \E env \in Environments :
          \E r \in {execute_command(sock, test_cases[idx + 1].command,
                                    test_cases[idx + 1].args, env)} :
              /\ results' = RecordResult(results, test_cases[idx + 1], r.result)
              /\ sock' = r.sock
              /\ sent' = IF r.tried THEN Append(sent, r.wire) ELSE sent
              /\ reads' = Append(reads, [stop |-> r.stop, data |-> r.data])
    /\ stats' = [stats EXCEPT !.successful_executions = @ + 1,
                              !.total_executions = @ + 1]
    /\ idx' = idx + 1
    /\ UNCHANGED <<codecVars, configVars, connVars, fileVars, genVars, afl_input, test_cases, pc, build>>

\* execute_tests, lines 518-522, and close, lines 163-170
Close ==
    /\ pc = "executing"
    /\ idx = Len(test_cases)
    /\ sock' = "None"
    /\ pc' = "done"
    /\ UNCHANGED <<codecVars, configVars, connVars, fileVars, genVars, afl_input, test_cases, results,
                   stats, idx, sent, build, reads>>

\* TestCase.execute_test_case, lines 331-332, on the commands of a test case
TestCaseConnect ==
    /\ pc = "parsed"
    /\ sock' \in ConnectOutcomes
    /\ pc' = "tc_executing"
    /\ UNCHANGED <<codecVars, configVars, connVars, fileVars, genVars, afl_input, test_cases, results,
                   stats, idx, sent, build, reads>>

\* TestCase.execute_test_case, lines 334-339: one turn of the loop
TestCaseExecuteCommand ==
    /\ pc = "tc_executing"
    /\ idx < Len(test_cases)
    /\ \E env \in Environments :
          \E r \in {execute_command(sock, test_cases[idx + 1].command,
                                    test_cases[idx + 1].args, env)} :
              /\ results' = RecordResult(results, test_cases[idx + 1], r.result)
              /\ sock' = r.sock
              /\ sent' = IF r.tried THEN Append(sent, r.wire) ELSE sent
              /\ reads' = Append(reads, [stop |-> r.stop, data |-> r.data])
    /\ idx' = idx + 1
    /\ UNCHANGED <<codecVars, configVars, connVars, fileVars, genVars, afl_input, test_cases, stats, pc, build>>

\* TestCase.execute_test_case, lines 341-342
TestCaseClose ==
    /\ pc = "tc_executing"
    /\ idx = Len(test_cases)
    /\ sock' = "None"
    /\ pc' = "tc_done"
    /\ UNCHANGED <<codecVars, configVars, connVars, fileVars, genVars, afl_input, test_cases, results,
                   stats, idx, sent, build, reads>>

Next ==
    \/ ReadAflInput \/ ParseAflInput \/ GenerateTestCase
    \/ Connect \/ ExecuteCommand \/ Close
    \/ TestCaseConnect \/ TestCaseExecuteCommand \/ TestCaseClose

Spec == Init /\ [][Next]_vars

(***************************************************************************)
(* The building of the test case on its own, with a larger maximum.        *)
(***************************************************************************)
ParseInit ==
    /\ IdleCodec /\ IdleGen
    /\ EXCLUDED_COMMANDS \in ParseExcluded
    /\ FOCUS_COMMANDS = <<>>
    /\ DICT_MIX_RATIO = 0
    /\ DICT_VALUES = <<>>
    /\ INPUT_VALUES = <<>>
    /\ MAX_COMMANDS_PER_TEST \in 0..MaxTarget
    /\ pc = "start"
    /\ afl_input = PyNone
    /\ test_cases = <<>>
    /\ results = <<>>
    /\ stats = [total_executions |-> 0, successful_executions |-> 0,
                error_executions |-> 0, timeouts |-> 0]
    /\ sock = "None"
    /\ idx = 0
    /\ sent = <<>>
    /\ build = NoBuild
    /\ reads = <<>>
    /\ IdleFile /\ IdleConn

\* read_afl_input, lines 388-396, with the further inputs
ReadAnyAflInput == ReadInput(AflInputs \cup ParseInputs)

ParseNext == ReadAnyAflInput \/ ParseAflInput \/ GenerateTestCase

SpecParse == ParseInit /\ [][ParseNext]_vars

(***************************************************************************)
(* Claims about the harness, checked under Spec.                           *)
(***************************************************************************)

\* C2: once a connection has been established, a command whose execution
\* fails still gets a Result, and every later command of the test case is
\* still executed and gets its own Result: each turn of the loop adds the
\* Result of the next command, and the loop ends only when the number of
\* Results equals the number of commands.
C2_FaultIsolation ==
    [][(pc \in {"executing", "tc_executing"} /\ sock = "connected") =>
          \/ /\ idx < Len(test_cases)
             /\ pc' = pc
             /\ idx' = idx + 1
             /\ Len(results') = idx'
             /\ SubSeq(results', 1, idx) = results
             /\ results'[idx'].command = test_cases[idx'].command
             /\ results'[idx'].args = test_cases[idx'].args
          \/ /\ idx = Len(test_cases)
             /\ pc' \in {"done", "tc_done"}
             /\ Len(results') = Len(test_cases)]_vars

\* on an established connection the first command failed and the second
\* has its Result
C2_Witness ==
    /\ pc \in {"executing", "tc_executing"}
    /\ sock = "connected"
    /\ idx = 2
    /\ Len(results) = 2
    /\ results[1].result = PyError(ExecutionError)

\* C4: whenever at least one input line parses to an accepted command, the
\* final shuffled test case contains at least one (command, args) pair taken
\* from the input, and it never contains a command name that is absent from
\* the catalog.
C4_InputSurvives ==
    pc = "parsed" =>
        /\ \A i \in DOMAIN test_cases : test_cases[i].command \in DOMAIN REDIS_COMMANDS
        /\ (afl_input.t = "bytes" /\ parsed_commands(afl_input.v) # <<>>) =>
              \E i \in DOMAIN test_cases :
                  test_cases[i] \in Range(parsed_commands(afl_input.v))

\* the two-line example was parsed: GET foo is in the test case next to a
\* generated command
C4_Witness ==
    /\ pc = "parsed"
    /\ afl_input = PyBytes(S(<<"G", "E", "T", " ", "f", "o", "o", "\n", "B", "A", "D", "C", "M", "D", " ", "x", "\n">>))
    /\ Len(test_cases) = 2
    /\ \E i \in DOMAIN test_cases :
          test_cases[i] = [command |-> GET, args |-> <<S(<<"f", "o", "o">>)>>]
    /\ \E i \in DOMAIN test_cases :
          test_cases[i] \notin Range(parsed_commands(afl_input.v))

\* C8: when the initial connection to the server cannot be established, no
\* command of the test case is sent or attempted individually: once
\* execute_tests is through, the result list is empty and the error counter
\* has grown by the number of commands of the test case.
C8_ConnectionFailureGivesUp ==
    (\/ pc = "gave_up"
     \/ pc = "executing" /\ sock = "unconnected" /\ idx = Len(test_cases))
        => /\ sent = <<>>
           /\ results = <<>>
           /\ stats.error_executions = Len(test_cases)

(***************************************************************************)
(* TestCase.save_to_file and TestCase.load_from_file: the JSON text that   *)
(* json.dump writes and what json.load reads back from it.                 *)
(***************************************************************************)
\* the most commands of a test case that is saved
MaxSaved == 2

\* one lower-case hexadecimal digit
HexDigit(n) == IF n < 10 THEN Ord["0"] + n ELSE Ord["a"] + (n - 10)

\* a string escape that leaves the backslash as it is
JsonEscapeCharKeepBackslash(c) ==
    IF c = Ord["\""] THEN <<Ord["\\"], Ord["\""]>>
    ELSE IF c = 10 THEN <<Ord["\\"], Ord["n"]>>
    ELSE IF c = 13 THEN <<Ord["\\"], Ord["r"]>>
    ELSE IF c = 9 THEN <<Ord["\\"], Ord["t"]>>
    ELSE IF c = 8 THEN <<Ord["\\"], Ord["b"]>>
    ELSE IF c = 12 THEN <<Ord["\\"], Ord["f"]>>
    ELSE IF c < 32
    THEN <<Ord["\\"], Ord["u"], Ord["0"], Ord["0"], HexDigit(c \div 16), HexDigit(c % 16)>>
    ELSE <<c>>

\* json.dump with ensure_ascii=False: the quote, the backslash and the
\* control characters below 32 are escaped, every other character is
\* written as it is
JsonEscapeChar(c) ==
    IF c = Ord["\""] THEN <<Ord["\\"], Ord["\""]>>
    ELSE IF c = Ord["\\"] THEN <<Ord["\\"], Ord["\\"]>>
    ELSE IF c = 10 THEN <<Ord["\\"], Ord["n"]>>
    ELSE IF c = 13 THEN <<Ord["\\"], Ord["r"]>>
    ELSE IF c = 9 THEN <<Ord["\\"], Ord["t"]>>
    ELSE IF c = 8 THEN <<Ord["\\"], Ord["b"]>>
    ELSE IF c = 12 THEN <<Ord["\\"], Ord["f"]>>
    ELSE IF c < 32
    THEN <<Ord["\\"], Ord["u"], Ord["0"], Ord["0"], HexDigit(c \div 16), HexDigit(c % 16)>>
    ELSE <<c>>

RECURSIVE JsonEscape(_)
JsonEscape(s) == IF s = <<>> THEN <<>> ELSE JsonEscapeChar(s[1]) \o JsonEscape(Tail(s))

\* a str as JSON
JsonString(s) == <<Ord["\""]>> \o JsonEscape(s) \o <<Ord["\""]>>

\* indent=2: a new line and two spaces for each level of nesting
JsonNewline(level) == <<10>> \o Repeat(Ord[" "], 2 * level)

\* the texts of the items, each on a line of its own, with "," between them
RECURSIVE JsonItems(_, _)
JsonItems(texts, level) ==
    IF Len(texts) = 1 THEN JsonNewline(level) \o texts[1]
    ELSE JsonNewline(level) \o texts[1] \o <<Ord[","]>> \o JsonItems(Tail(texts), level)

\* a list or a tuple as JSON; texts are its items, written for level + 1
JsonArray(texts, level) ==
    IF texts = <<>> THEN <<Ord["["], Ord["]"]>>
    ELSE <<Ord["["]>> \o JsonItems(texts, level + 1) \o JsonNewline(level) \o <<Ord["]"]>>

\* a dict as JSON; the key separator is ": "
JsonObject(keys, texts, level) ==
    IF keys = <<>> THEN <<Ord["{"], Ord["}"]>>
    ELSE <<Ord["{"]>>
         \o JsonItems([i \in DOMAIN keys |->
                          JsonString(keys[i]) \o <<Ord[":"], Ord[" "]>> \o texts[i]],
                      level + 1)
         \o JsonNewline(level) \o <<Ord["}"]>>

\* what execute_command returned, as JSON
RECURSIVE JsonValue(_, _)
JsonValue(v, level) ==
    IF v.t = "str" THEN JsonString(v.v)
    ELSE IF v.t = "None" THEN S(<<"n", "u", "l", "l">>)
    ELSE IF v.t = "int" THEN IntStr(v.v[1])
    ELSE IF v.t = "list"
    THEN JsonArray([i \in DOMAIN v.v |-> JsonValue(v.v[i], level + 1)], level)
    ELSE JsonObject(<<S(<<"e", "r", "r", "o", "r">>)>>, <<JsonString(v.v[2])>>, level)

\* one (command, args) of self.commands
JsonCommand(c, level) ==
    JsonArray(<<JsonString(c.command),
                JsonArray([i \in DOMAIN c.args |-> JsonString(c.args[i])], level + 1)>>,
              level)

\* one {"command": ..., "args": ..., "result": ...} of self.results
JsonResult(r, level) ==
    JsonObject(<<S(<<"c", "o", "m", "m", "a", "n", "d">>), S(<<"a", "r", "g", "s">>),
                 S(<<"r", "e", "s", "u", "l", "t">>)>>,
               <<JsonString(r.command),
                 JsonArray([i \in DOMAIN r.args |-> JsonString(r.args[i])], level + 1),
                 JsonValue(r.result, level + 1)>>,
               level)

\* the text written to the file as UTF-8, encoded half by half
RECURSIVE FileEncode(_)
FileEncode(text) ==
    IF Len(text) <= 8 THEN Utf8Encode(text)
    ELSE FileEncode(SubSeq(text, 1, Len(text) \div 2))
         \o FileEncode(SubSeq(text, (Len(text) \div 2) + 1, Len(text)))

\* save_to_file, lines 346-348: the dict of the commands and the results,
\* dumped and written to the file as UTF-8
save_to_file(commands, rs) ==
    FileEncode(
        JsonObject(<<S(<<"c", "o", "m", "m", "a", "n", "d", "s">>),
                     S(<<"r", "e", "s", "u", "l", "t", "s">>)>>,
                   <<JsonArray([i \in DOMAIN commands |-> JsonCommand(commands[i], 2)], 1),
                     JsonArray([i \in DOMAIN rs |-> JsonResult(rs[i], 2)], 1)>>,
                   0))

\* the character at a position of the text, 0 past its end
JsonAt(text, pos) == IF pos >= 1 /\ pos <= Len(text) THEN text[pos] ELSE 0

\* the position of the first character at or after pos that is no white space
RECURSIVE JsonSkip(_, _)
JsonSkip(text, pos) ==
    IF JsonAt(text, pos) \in {32, 9, 10, 13} THEN JsonSkip(text, pos + 1) ELSE pos

\* the value of a hexadecimal digit, -1 for another character
HexValue(c) ==
    IF c >= Ord["0"] /\ c <= Ord["9"] THEN c - Ord["0"]
    ELSE IF c >= Ord["a"] /\ c <= Ord["f"] THEN c - Ord["a"] + 10
    ELSE IF c >= Ord["A"] /\ c <= Ord["F"] THEN c - Ord["A"] + 10
    ELSE -1

\* json.load raises JSONDecodeError
JsonFail == [v |-> PyRaise("JSONDecodeError"), pos |-> 0]

\* the character a two-character escape stands for, -1 if there is none
JsonUnescape(c) ==
    IF c \in {Ord["\""], Ord["\\"], Ord["/"]} THEN c
    ELSE IF c = Ord["n"] THEN 10
    ELSE IF c = Ord["r"] THEN 13
    ELSE IF c = Ord["t"] THEN 9
    ELSE IF c = Ord["b"] THEN 8
    ELSE IF c = Ord["f"] THEN 12
    ELSE -1

\* a JSON string from the character after its opening quote on: the str and
\* the position after the closing quote.  A control character that is not
\* escaped is an error (strict mode).
RECURSIVE JsonScanString(_, _, _)

\* \uXXXX: h are the values of the four digits
JsonScanHex(text, pos, acc, h) ==
    IF \E i \in 1..4 : h[i] = -1 THEN JsonFail
    ELSE JsonScanString(text, pos + 6,
                        Append(acc, h[1] * 4096 + h[2] * 256 + h[3] * 16 + h[4]))

\* an escape: e is the character after the backslash
JsonScanEscape(text, pos, acc, e) ==
    IF e = Ord["u"]
    THEN JsonScanHex(text, pos, acc, [i \in 1..4 |-> HexValue(JsonAt(text, pos + 1 + i))])
    ELSE IF JsonUnescape(e) = -1 THEN JsonFail
    ELSE JsonScanString(text, pos + 2, Append(acc, JsonUnescape(e)))

JsonScanChar(text, pos, acc, c) ==
    IF pos > Len(text) \/ c < 32 THEN JsonFail
    ELSE IF c = Ord["\""] THEN [v |-> PyStr(acc), pos |-> pos + 1]
    ELSE IF c = Ord["\\"] THEN JsonScanEscape(text, pos, acc, JsonAt(text, pos + 1))
    ELSE JsonScanString(text, pos + 1, Append(acc, c))

JsonScanString(text, pos, acc) == JsonScanChar(text, pos, acc, JsonAt(text, pos))

\* the JSON value that starts at pos, as the Python value json.load makes of
\* it, and the position after it: a string is a str, null is None, an array
\* a list and an object a dict, held as the sequence of its <<key, value>>
\* pairs.  Numbers and booleans do not occur in a test case file.
RECURSIVE JsonParseValue(_, _), JsonParseItems(_, _, _), JsonParseMembers(_, _, _)

\* after an item of an array, at q: a comma and the next item, or the end
JsonItemsEnd(text, q, items) ==
    IF JsonAt(text, q) = Ord[","] THEN JsonParseItems(text, q + 1, items)
    ELSE IF JsonAt(text, q) = Ord["]"] THEN [v |-> PyList(items), pos |-> q + 1]
    ELSE JsonFail

JsonItemsNext(text, item, acc) ==
    IF item.v.t = "raise" THEN JsonFail
    ELSE JsonItemsEnd(text, JsonSkip(text, item.pos), Append(acc, item.v))

\* after a member of an object, at q: a comma and the next member, or the end
JsonMembersEnd(text, q, members) ==
    IF JsonAt(text, q) = Ord[","] THEN JsonParseMembers(text, q + 1, members)
    ELSE IF JsonAt(text, q) = Ord["}"]
    THEN [v |-> [t |-> "dict", v |-> members], pos |-> q + 1]
    ELSE JsonFail

JsonMemberNext(text, key, item, acc) ==
    IF item.v.t = "raise" THEN JsonFail
    ELSE JsonMembersEnd(text, JsonSkip(text, item.pos), Append(acc, <<key, item.v>>))

\* the colon after the key, at position colon, and the value of the member
JsonMemberValue(text, key, colon, acc) ==
    IF JsonAt(text, colon) # Ord[":"] THEN JsonFail
    ELSE JsonMemberNext(text, key, JsonParseValue(text, colon + 1), acc)

JsonMemberColon(text, key, acc) ==
    IF key.v.t = "raise" THEN JsonFail
    ELSE JsonMemberValue(text, key.v.v, JsonSkip(text, key.pos), acc)

\* a member of an object, at p: its key is a string
JsonMemberKey(text, p, acc) ==
    IF JsonAt(text, p) # Ord["\""] THEN JsonFail
    ELSE JsonMemberColon(text, JsonScanString(text, p + 1, <<>>), acc)

\* after the opening bracket of an array, at q
JsonArrayFrom(text, q) ==
    IF JsonAt(text, q) = Ord["]"] THEN [v |-> PyList(<<>>), pos |-> q + 1]
    ELSE JsonParseItems(text, q, <<>>)

\* after the opening brace of an object, at q
JsonObjectFrom(text, q) ==
    IF JsonAt(text, q) = Ord["}"] THEN [v |-> [t |-> "dict", v |-> <<>>], pos |-> q + 1]
    ELSE JsonParseMembers(text, q, <<>>)

\* the value whose first character is at p
JsonValueFrom(text, p) ==
    IF JsonAt(text, p) = Ord["\""] THEN JsonScanString(text, p + 1, <<>>)
    ELSE IF JsonAt(text, p) = Ord["["] THEN JsonArrayFrom(text, JsonSkip(text, p + 1))
    ELSE IF JsonAt(text, p) = Ord["{"] THEN JsonObjectFrom(text, JsonSkip(text, p + 1))
    ELSE IF PySlice(text, p - 1, p + 3) = S(<<"n", "u", "l", "l">>)
    THEN [v |-> PyNone, pos |-> p + 4]
    ELSE JsonFail

JsonParseValue(text, pos) == JsonValueFrom(text, JsonSkip(text, pos))
JsonParseItems(text, pos, acc) == JsonItemsNext(text, JsonParseValue(text, pos), acc)
JsonParseMembers(text, pos, acc) == JsonMemberKey(text, JsonSkip(text, pos), acc)

\* one value and nothing but white space after it
JsonWhole(text, r) ==
    IF r.v.t = "raise" \/ JsonSkip(text, r.pos) # Len(text) + 1
    THEN PyRaise("JSONDecodeError")
    ELSE r.v

\* json.load
json_load(text) == JsonWhole(text, JsonParseValue(text, 1))

\* the text of the file, read as UTF-8, decoded half by half (each half
\* starts on the first byte of a character); the file holds what
\* save_to_file encoded, so that nothing in it is malformed
RECURSIVE FileDecode(_)

\* the first byte of a character at or after half
FileCut(bytes, half) ==
    CHOOSE k \in half..(half + 3) :
        /\ bytes[k + 1] < 128 \/ bytes[k + 1] >= 192
        /\ \A j \in half..(k - 1) : bytes[j + 1] >= 128 /\ bytes[j + 1] < 192

FileDecodeHalves(bytes, cut) ==
    FileDecode(SubSeq(bytes, 1, cut)) \o FileDecode(SubSeq(bytes, cut + 1, Len(bytes)))

FileDecode(bytes) ==
    IF Len(bytes) <= 8 THEN Utf8Decode(bytes)
    ELSE FileDecodeHalves(bytes, FileCut(bytes, Len(bytes) \div 2))

\* key in d, and d[key] (of the last pair with that key)
DictHas(d, key) == \E i \in DOMAIN d.v : d.v[i][1] = key
DictGet(d, key) ==
    LET hits == {i \in DOMAIN d.v : d.v[i][1] = key}
    IN  d.v[CHOOSE i \in hits : \A j \in hits : i >= j][2]

\* load_from_file, lines 356-361: the TestCase made of the data: its
\* commands and its results, [] when the data has none
TestCaseOf(data) ==
    IF data.t = "raise" THEN data
    ELSE IF data.t # "dict" \/ ~DictHas(data, S(<<"c", "o", "m", "m", "a", "n", "d", "s">>))
    THEN PyRaise("KeyError")
    ELSE [t |-> "TestCase",
          commands |-> DictGet(data, S(<<"c", "o", "m", "m", "a", "n", "d", "s">>)),
          results |-> IF DictHas(data, S(<<"r", "e", "s", "u", "l", "t", "s">>))
                      THEN DictGet(data, S(<<"r", "e", "s", "u", "l", "t", "s">>))
                      ELSE PyList(<<>>)]

\* load_from_file, lines 350-361
load_from_file(bytes) == TestCaseOf(json_load(FileDecode(bytes)))

\* commands of a test case that is saved: a plain one, one without
\* arguments, one whose argument holds a quote, a backslash and the two
\* characters backslash-n, one with an empty argument, characters outside
\* ASCII and control characters
FileCommands ==
    { [command |-> GET, args |-> <<S(<<"f", "o", "o">>)>>],
      [command |-> PING, args |-> <<>>],
      [command |-> ECHO, args |-> <<S(<<"a", "\"", "b", "\\", "c", "\\", "n">>)>>],
      [command |-> EXPIRE, args |-> <<<<>>, <<233, 8364, 10, 1>>>>] }

\* what the server does during one command of a saved test case: it
\* answers, it closes the connection without an answer, or it stays silent
FileEnvironments ==
    { [connect |-> "connected", send |-> TRUE,
       chunks |-> <<S(<<"+", "O", "K", "\r", "\n">>)>>, closed |-> FALSE],
      [connect |-> "connected", send |-> TRUE, chunks |-> <<>>, closed |-> TRUE],
      [connect |-> "connected", send |-> TRUE, chunks |-> <<>>, closed |-> FALSE] }

\* lines 336-337: one command is executed and its Result appended
Step(before, c, r) ==
    [results |-> RecordResult(before.results, c, r.result),
     sock |-> r.sock,
     sent |-> IF r.tried THEN Append(before.sent, r.wire) ELSE before.sent,
     reads |-> Append(before.reads, [stop |-> r.stop, data |-> r.data])]

\* lines 331-339: the runs of the commands from the state before on, one
\* for each way the server can behave
RECURSIVE RunsFrom(_, _)
RunsFrom(before, commands) ==
    IF commands = <<>> THEN {before}
    ELSE UNION {RunsFrom(Step(before, commands[1], r), Tail(commands)) :
                   r \in {execute_command(before.sock, commands[1].command,
                                          commands[1].args, env) :
                             env \in FileEnvironments}}

\* execute_test_case, lines 329-342: the client is made (and connects), the
\* commands are executed one after the other, the client is closed
execute_test_case(commands) ==
    UNION {RunsFrom([results |-> <<>>, sock |-> s0, sent |-> <<>>, reads |-> <<>>],
                    commands) : s0 \in ConnectOutcomes}

\* a TestCase with its commands, as generate_test_case leaves it (or empty,
\* as the constructor does), not yet executed
FileInit ==
    /\ IdleCodec /\ IdleConfig /\ IdleGen /\ IdleFile /\ IdleConn
    /\ pc = "tc_generated"
    /\ afl_input = PyNone
    /\ test_cases \in SeqsUpTo(FileCommands, MaxSaved)
    /\ results = <<>>
    /\ stats = [total_executions |-> 0, successful_executions |-> 0,
                error_executions |-> 0, timeouts |-> 0]
    /\ sock = "None"
    /\ idx = 0
    /\ sent = <<>>
    /\ build = NoBuild
    /\ reads = <<>>

\* TestCase.execute_test_case, lines 329-342
ExecuteTestCase ==
    /\ pc = "tc_generated"
    /\ \E run \in execute_test_case(test_cases) :
          /\ results' = run.results
          /\ sent' = run.sent
          /\ reads' = run.reads
    /\ sock' = "None"
    /\ idx' = Len(test_cases)
    /\ pc' = "tc_executed"
    /\ UNCHANGED <<codecVars, configVars, connVars, genVars, fileVars, afl_input, test_cases, stats,
                   build>>

\* TestCase.save_to_file, lines 344-348
SaveToFile ==
    /\ pc \in {"tc_generated", "tc_executed"}
    /\ file' = PyBytes(save_to_file(test_cases, results))
    /\ pc' = "saved"
    /\ UNCHANGED <<codecVars, configVars, connVars, genVars, afl_input, test_cases, results, stats,
                   sock, idx, sent, build, reads, loaded, replayed>>

\* TestCase.load_from_file, lines 350-361
LoadFromFile ==
    /\ pc = "saved"
    /\ loaded' = load_from_file(file.v)
    /\ pc' = "loaded"
    /\ UNCHANGED <<codecVars, configVars, connVars, genVars, afl_input, test_cases, results, stats,
                   sock, idx, sent, build, reads, file, replayed>>

\* line 334 on a loaded test case: "for command, args in self.commands"
\* takes every item apart, a list of two as it would a tuple
Unpacked(commands) ==
    [i \in DOMAIN commands.v |->
        [command |-> commands.v[i].v[1].v,
         args |-> [k \in DOMAIN commands.v[i].v[2].v |-> commands.v[i].v[2].v[k].v]]]

\* a result of execute_command as the dict json.load would make of it
AsLoaded(v) ==
    IF v.t = "dict"
    THEN [t |-> "dict", v |-> <<<<S(<<"e", "r", "r", "o", "r">>), PyStr(v.v[2])>>>>]
    ELSE v

\* line 337: the dict appended to self.results
ResultDict(r) ==
    [t |-> "dict",
     v |-> << <<S(<<"c", "o", "m", "m", "a", "n", "d">>), PyStr(r.command)>>,
              <<S(<<"a", "r", "g", "s">>), PyList([k \in DOMAIN r.args |-> PyStr(r.args[k])])>>,
              <<S(<<"r", "e", "s", "u", "l", "t">>), AsLoaded(r.result)>> >>]

\* execute_test_case, lines 329-342, on the loaded test case: its results
\* are replaced and the commands go out
ExecuteLoaded ==
    /\ pc = "loaded"
    /\ loaded.t = "TestCase"
    /\ \E run \in execute_test_case(Unpacked(loaded.commands)) :
          /\ loaded' = [loaded EXCEPT !.results =
                           PyList([i \in DOMAIN run.results |->
                                      ResultDict(run.results[i])])]
          /\ replayed' = run.sent
    /\ pc' = "replayed"
    /\ UNCHANGED <<codecVars, configVars, connVars, genVars, afl_input, test_cases, results, stats,
                   sock, idx, sent, build, reads, file>>

FileNext == ExecuteTestCase \/ SaveToFile \/ LoadFromFile \/ ExecuteLoaded

SpecFile == FileInit /\ [][FileNext]_vars

(***************************************************************************)
(* Claims about the building of the test case, checked under SpecParse.    *)
(***************************************************************************)

\* the input went through the loop of parse_afl_input
LinesParsed == pc \in {"parsed", "crashed"} /\ afl_input.t = "bytes" /\ afl_input.v # <<>>

\* what a line gives when its tokens are accepted or dropped on the first
\* of them: its name upper-cased with the other tokens, or nothing
Accepted(tokens) ==
    IF Upper(tokens[1]) \in DOMAIN REDIS_COMMANDS \ EXCLUDED_COMMANDS
    THEN <<[command |-> Upper(tokens[1]), args |-> Tail(tokens)]>>
    ELSE <<>>

\* the commands of the lines, given the tokens of each line (no tokens for
\* an empty line)
RECURSIVE AcceptedOf(_)
AcceptedOf(tokens) ==
    IF tokens = <<>> THEN <<>>
    ELSE (IF tokens[1] = <<>> THEN <<>> ELSE Accepted(tokens[1]))
         \o AcceptedOf(Tail(tokens))

\* the lines of the input
Lines(input) == Split(input, Ord["\n"])

\* the space-separated tokens of a line as it stands in the input
RawTokens(line) == Split(Utf8Decode(line), Ord[" "])

\* the space-separated tokens of a line decoded as UTF-8 without its invalid
\* bytes and without the whitespace around it
StrippedTokens(line) == Split(StrStrip(Utf8Decode(line)), Ord[" "])

\* C11, as claimed: a non-empty input line yields a parsed command if and
\* only if its first space-separated token, upper-cased, is a catalog command
\* that is not in the exclusion set; the parsed command is that name with the
\* remaining tokens in order and unmodified; every other line is dropped.
C11_LineAcceptedOnFirstToken ==
    LinesParsed =>
        LET lines == Lines(afl_input.v)
        IN  build.parsed_commands =
                AcceptedOf([i \in DOMAIN lines |->
                    IF lines[i] = <<>> THEN <<>> ELSE RawTokens(lines[i])])

\* C11, amended: the tokens are those of the line after it was decoded as
\* UTF-8 with its invalid bytes left out and the whitespace around it
\* stripped: a non-empty line yields a parsed command if and only if the
\* first of these tokens, upper-cased, is a catalog command that is not in
\* the exclusion set; the parsed command is that name with the remaining
\* tokens in order; every other line is dropped and the parse goes on.
C11_StrippedLineAcceptedOnFirstToken ==
    LinesParsed =>
        LET lines == Lines(afl_input.v)
        IN  build.parsed_commands =
                AcceptedOf([i \in DOMAIN lines |->
                    IF lines[i] = <<>> THEN <<>> ELSE StrippedTokens(lines[i])])

\* the padded line with the double space was parsed: GET with an empty
\* argument and a, the leading blanks and the carriage return gone
C11_Witness ==
    /\ pc = "parsed"
    /\ afl_input = PyBytes(S(<<" ", " ", "G", "E", "T", " ", " ", "a", "\r", "\n">>))
    /\ build.parsed_commands = <<[command |-> GET, args |-> <<<<>>, S(<<"a">>)>>]>>

\* ceil(n / 2)
HalfRoundedUp(n) == (n + 1) \div 2

\* xs holds entries of ys taken at distinct positions
WithoutReplacement(xs, ys) ==
    \E f \in [DOMAIN xs -> DOMAIN ys] :
        /\ \A i, j \in DOMAIN xs : i # j => f[i] # f[j]
        /\ \A i \in DOMAIN xs : xs[i] = ys[f[i]]

\* xs is ys in some order
Permutation(xs, ys) == Len(xs) = Len(ys) /\ WithoutReplacement(xs, ys)

\* a test case was mixed from parsed commands
Mixed == pc = "parsed" /\ build.parsed_commands # <<>>

\* C12, as claimed: when at least one command was parsed from the input, the
\* number of parsed-derived commands placed in the test case is at least
\* ceil(target / 2); they are chosen without replacement and the remainder up
\* to target are freshly generated commands.
C12_HalfFromInput ==
    Mixed =>
        /\ Len(build.chosen) >= HalfRoundedUp(build.num_commands)
        /\ WithoutReplacement(build.chosen, build.parsed_commands)
        /\ Len(build.generated) = build.num_commands - Len(build.chosen)
        /\ \A i \in DOMAIN build.generated : build.generated[i] \in GeneratedCommands
        /\ Permutation(test_cases, build.chosen \o build.generated)

\* C12, amended: when at least one command was parsed from the input, the
\* number of parsed-derived commands placed in the test case is the smaller
\* of the number parsed and floor(target / 2) + 1, which is at least
\* ceil(target / 2) only when that many were parsed; they are chosen without
\* replacement and the remainder up to target are freshly generated commands.
C12_HalfFromInputIfParsed ==
    Mixed =>
        /\ Len(build.chosen) =
              Min(Len(build.parsed_commands), (build.num_commands \div 2) + 1)
        /\ Len(build.chosen) >=
              Min(Len(build.parsed_commands), HalfRoundedUp(build.num_commands))
        /\ WithoutReplacement(build.chosen, build.parsed_commands)
        /\ Len(build.generated) = build.num_commands - Len(build.chosen)
        /\ \A i \in DOMAIN build.generated : build.generated[i] \in GeneratedCommands
        /\ Permutation(test_cases, build.chosen \o build.generated)

\* three commands were parsed, the target is 3: two of them were chosen and
\* one command was generated
C12_Witness ==
    /\ Mixed
    /\ Len(build.parsed_commands) = 3
    /\ build.num_commands = 3
    /\ Len(build.chosen) = 2
    /\ Len(build.generated) = 1

\* C18, as claimed: the random source is seeded at most once per harness
\* invocation and never after a random draw has been consumed, so that the
\* test case built is determined by the input bytes, the configuration and
\* the value pools: every draw that builds it comes after a seeding.
C18_SeededBeforeEveryDraw ==
    /\ \A i \in DOMAIN build.random : build.random[i] = "seed" => i = 1
    /\ (pc = "parsed" /\ build.random # <<>>) => build.random[1] = "seed"

\* C18, amended: the random source is seeded at most once per harness
\* invocation and never after a random draw has been consumed.  It is seeded,
\* with the first four bytes of the input, only when the input has at least
\* four bytes, and only then do two invocations given the same input bytes,
\* configuration and value pools build the same ordered test case; with a
\* shorter, empty or unreadable input the draws come from an unseeded source.
C18_SeededIfFourBytes ==
    /\ \A i \in DOMAIN build.random : build.random[i] = "seed" => i = 1
    /\ pc = "parsed" =>
          LET seeded == afl_input.t = "bytes" /\ Len(afl_input.v) >= 4
          IN  /\ build.random # <<>>
              /\ (build.random[1] = "seed") = seeded
              /\ seeded => build.test_case_seed = PyBytes(SubSeq(afl_input.v, 1, 4))
              /\ ~seeded => build.test_case_seed = PyNone

\* the test case of a seven-byte input was built: the seeding came first
C18_Witness ==
    /\ pc = "parsed"
    /\ afl_input = PyBytes(S(<<"g", "e", "t", " ", "f", "o", "o">>))
    /\ build.random[1] = "seed"
    /\ Len(build.random) > 2

\* C20: in every path (input with parsed commands, input with no accepted
\* command, empty or unreadable input) the test case handed to execution has
\* exactly the drawn target number of commands, and that number lies between
\* 1 and the configured maximum MAX_COMMANDS_PER_TEST.
C20_TargetCount ==
    pc = "parsed" =>
        /\ Len(test_cases) = build.num_commands
        /\ build.num_commands \in 1..MAX_COMMANDS_PER_TEST

\* one parsed command was padded to three
C20_Witness ==
    /\ pc = "parsed"
    /\ Len(build.parsed_commands) = 1
    /\ build.num_commands = 3
    /\ Len(test_cases) = 3

(***************************************************************************)
(* Claims about the run as a whole, checked under Spec.                    *)
(***************************************************************************)

\* the number of random.shuffle calls
Shuffles(b) == Cardinality({i \in DOMAIN b.random : b.random[i] = "shuffle"})

\* the test case is built: it awaits execution, is executed or was
Built ==
    {"parsed", "executing", "done", "gave_up", "tc_executing", "tc_done"}

\* C13, as claimed: in every run of the harness the command order is
\* shuffled exactly once, and that shuffle happens before the first command
\* is sent; the order is never changed once execution has begun.
C13_ShuffledOnce ==
    [][/\ pc' \in Built => Shuffles(build') = 1
       /\ pc \in Built => (test_cases' = test_cases /\ build' = build)
       /\ sent' # sent => pc \in Built]_vars

\* C13, amended: the command order is shuffled at most once in a run:
\* exactly once, as the last step of parse_afl_input, when the test case is
\* built from a non-empty input, and not at all when it is generated because
\* the input is empty or unreadable (it then keeps the order of generation).
\* The shuffle, if any, happens before the first command is sent, and the
\* order is never changed once execution has begun.
C13_ShuffledAtMostOnce ==
    [][/\ pc' \in Built =>
             /\ Shuffles(build') =
                   (IF afl_input'.t = "bytes" /\ afl_input'.v # <<>> THEN 1 ELSE 0)
             /\ Shuffles(build') = 1 =>
                   build'.random[Len(build'.random)] = "shuffle"
       /\ pc \in Built => (test_cases' = test_cases /\ build' = build)
       /\ sent' # sent => pc \in Built]_vars

\* a parsed and shuffled test case of two commands is under execution, its
\* first command sent
C13_Witness ==
    /\ pc = "executing"
    /\ afl_input.t = "bytes" /\ afl_input.v # <<>>
    /\ Shuffles(build) = 1
    /\ Len(test_cases) = 2
    /\ Len(sent) = 1

\* C19: for every byte buffer, empty, truncated and malformed ones included,
\* decode_resp returns a value (a str, None, an int, a list or an error
\* value) and raises no exception.
C19_DecodeNeverRaises ==
    cpc \in {"decoded", "roundtrip"} =>
        decoded.t \in {"str", "None", "int", "list", "dict"}

C19_Witness ==
    /\ cpc = "decoded"
    /\ wire = S(<<"$", "x", "\r", "\n", "a", "b", "\r", "\n">>)
    /\ decoded.t = "str"

(***************************************************************************)
(* Claims about the test case file, checked under SpecFile.                *)
(***************************************************************************)
\* the bytes that go out for one command of the test case that was saved
FrameOf(c) ==
    Utf8Encode(encode_resp(PyList(<<PyStr(c.command)>> \o
                                  [i \in DOMAIN c.args |-> PyStr(c.args[i])])))

\* the commands of a loaded test case are a list of [name, [argument, ...]]
CommandList(commands) ==
    /\ commands.t = "list"
    /\ \A i \in DOMAIN commands.v :
          /\ commands.v[i].t = "list" /\ Len(commands.v[i].v) = 2
          /\ commands.v[i].v[1].t = "str"
          /\ commands.v[i].v[2].t = "list"
          /\ \A k \in DOMAIN commands.v[i].v[2].v : commands.v[i].v[2].v[k].t = "str"

\* C17: the test case loaded from a file that save_to_file wrote has the
\* commands of the test case that was saved (the names, the argument lists,
\* the order) and its results, and executing it sends the frames of those
\* commands, in their order.
C17_LoadYieldsSaved ==
    /\ pc \in {"loaded", "replayed"} =>
          /\ loaded.t = "TestCase"
          /\ CommandList(loaded.commands)
          /\ Unpacked(loaded.commands) = test_cases
    /\ pc = "loaded" =>
          loaded.results = PyList([i \in DOMAIN results |-> ResultDict(results[i])])
    /\ pc = "replayed" =>
          replayed = [i \in DOMAIN test_cases |-> FrameOf(test_cases[i])]

C17_Witness ==
    /\ pc = "replayed"
    /\ Len(test_cases) = 2
    /\ test_cases[1].command = ECHO
    /\ test_cases[2].command = EXPIRE
    /\ Len(results) = 2
    /\ results[1].result.t = "str"
    /\ results[2].result.t = "dict"
    /\ Len(replayed) = 2
    /\ replayed = sent

(***************************************************************************)
(* Claims about the exchange with the server, checked under Spec.          *)
(***************************************************************************)
\* the number a RESP length header spells, -1 for the null marker "-1" and
\* -2 for anything that is not a number
HeaderNumber(h) ==
    IF h = S(<<"-", "1">>) THEN -1
    ELSE IF h # <<>> /\ \A i \in DOMAIN h : IsDigit(h[i]) THEN DigitsValue(h, 0)
    ELSE -2

\* RESP framing: the offset just after the frame that starts at offset pos of
\* b, or -1 when b does not hold the whole of it; FramesEnd does so for n
\* frames in a row (the elements of an array)
RECURSIVE FrameEnd(_, _), FramesEnd(_, _, _)
FrameEnd(b, pos) ==
    LET eol == PyFind(b, CRLF, pos)
    IN  IF pos >= Len(b) \/ eol = -1 THEN -1
        ELSE LET n == HeaderNumber(SubSeq(b, pos + 2, eol))
             IN  IF b[pos + 1] = Ord["$"]
                 THEN IF n = -1 THEN eol + 2
                      ELSE IF n >= 0 /\ eol + 2 + n + 2 <= Len(b)
                                /\ SubSeq(b, eol + 2 + n + 1, eol + 2 + n + 2) = CRLF
                      THEN eol + 2 + n + 2
                      ELSE -1
                 ELSE IF b[pos + 1] = Ord["*"]
                 THEN IF n = -1 THEN eol + 2
                      ELSE IF n >= 0 THEN FramesEnd(b, eol + 2, n)
                      ELSE -1
                 ELSE eol + 2
FramesEnd(b, pos, n) ==
    IF n = 0 THEN pos
    ELSE LET next == FrameEnd(b, pos)
         IN  IF next = -1 THEN -1 ELSE FramesEnd(b, next, n - 1)

CompleteFrame(b) == FrameEnd(b, 0) # -1

\* the calls of execute_command that handed bytes to decode_resp
Decoded(r) == r.stop \in {"crlf", "closed"}

\* C14: whenever execute_command has stopped reading and decoded what it
\* held, it held a complete RESP frame, or the peer had closed the
\* connection (on a deadline nothing is decoded): it never decodes a prefix
\* of a frame that is still arriving.
C14_DecodesCompleteFrame ==
    \A i \in DOMAIN reads :
        Decoded(reads[i]) => CompleteFrame(reads[i].data) \/ reads[i].stop = "closed"

\* the command went out on the connection
WasSent(r) == r.stop \in {"timeout", "crlf", "closed"}

\* the command went out and its reply has not been received in full: the
\* deadline passed first, or reading stopped inside the frame
Outstanding(r) ==
    r.stop = "timeout" \/ (r.stop = "crlf" /\ ~CompleteFrame(r.data))

\* C15: on the one connection of a run no command is sent while the reply
\* to the command before it is outstanding, a command that timed out
\* included.
C15_OneInFlight ==
    \A i \in DOMAIN reads :
        (i > 1 /\ WasSent(reads[i])) => ~Outstanding(reads[i - 1])

TimedOut == {i \in DOMAIN reads : reads[i].stop = "timeout"}

\* C16: in execute_tests every command that timed out has a Result, and the
\* timeouts counter is the number of commands that timed out.
C16_TimeoutCounted ==
    pc \in {"executing", "done"} =>
        /\ \A i \in TimedOut : i \in DOMAIN results /\ results[i].result.t = "dict"
        /\ stats.timeouts = Cardinality(TimedOut)

\* C21: with empty input, or when building the test case from the input
\* raises, the harness does not terminate: the test case becomes freshly
\* generated commands and the run goes on to execution.
C21_FallbackProceeds == pc # "crashed"

\* the alternatives of an optional spec: its first word split on '|'
Alternatives(opt_arg) == Range(Split(Split(opt_arg, Ord[" "])[1], Ord["|"]))

\* the arguments a selected optional spec appended
Appended(j) ==
    (IF j < Len(optlog) THEN optlog[j + 1].at ELSE Len(args) + 1) - optlog[j].at

\* C22: a selected optional spec that is a set of alternatives appends
\* exactly one argument, one of the alternatives of the spec split on '|';
\* the unsplit spec is never emitted.
C22_OneAlternative ==
    gpc = "returned" =>
        \A j \in DOMAIN optlog :
            Contains(optlog[j].spec, Ord["|"]) =>
                /\ Appended(j) = 1
                /\ args[optlog[j].at] \in Alternatives(optlog[j].spec)
                /\ args[optlog[j].at] # optlog[j].spec

\* how many entries of a sequence equal x
Count(xs, x) == Cardinality({i \in DOMAIN xs : xs[i] = x})

\* a spec of the form "TOKEN type": it has a space and its first word is
\* not a set of alternatives
TokenAndType(opt_arg) ==
    /\ Contains(opt_arg, Ord[" "])
    /\ ~Contains(Split(opt_arg, Ord[" "])[1], Ord["|"])

\* C23: every optional spec of the schema is expanded at most once per
\* generated command; a "TOKEN type" spec contributes the literal token
\* immediately followed by one generated value of that type; with N required
\* and K optional specs the argument list has at most N + 2K entries.
C23_OptionalOnce ==
    gpc = "returned" =>
        LET info == REDIS_COMMANDS[command]
            N == Len(info.args)
            K == Len(info.optional_args)
        IN  /\ Len(args) <= N + 2 * K
            /\ \A j \in DOMAIN optlog :
                  /\ Count([i \in DOMAIN optlog |-> optlog[i].spec], optlog[j].spec)
                        <= Count(info.optional_args, optlog[j].spec)
                  /\ TokenAndType(optlog[j].spec) =>
                        /\ Appended(j) = 2
                        /\ args[optlog[j].at] = Split(optlog[j].spec, Ord[" "])[1]
                        /\ \E c \in DOMAIN calls :
                              /\ calls[c].at = optlog[j].at + 1
                              /\ calls[c].arg_type = Split(optlog[j].spec, Ord[" "])[2]
                              /\ calls[c].value = args[optlog[j].at + 1]

\* SCAN was generated with both of its token and type options
C23_Witness ==
    /\ gpc = "returned"
    /\ command = SCAN
    /\ Len(optlog) = 2
    /\ Len(args) = Len(REDIS_COMMANDS[SCAN].args) + 4
    /\ \A j \in DOMAIN optlog : TokenAndType(optlog[j].spec)

\* the commands of the test case are being run or have been run
Running == pc \in {"executing", "done", "gave_up", "tc_executing", "tc_done"}

\* Result i is the Result of command i: its name, its arguments, and one
\* value that is a decoded reply or an error marker
Parallel ==
    /\ Len(results) = idx
    /\ idx <= Len(test_cases)
    /\ \A i \in DOMAIN results :
          /\ DOMAIN results[i] = {"command", "args", "result"}
          /\ results[i].command = test_cases[i].command
          /\ results[i].args = test_cases[i].args
          /\ results[i].result.t \in {"str", "None", "dict"}
          /\ results[i].result.t = "dict" =>
                results[i].result \in
                    {PyError(NoConnection), PyError(ExecutionError), PyError(UnknownError)}

\* a step of the execution appends at most one Result, leaves the Results
\* before it as they were, and leaves the commands as they were
Appends ==
    Running =>
        /\ test_cases' = test_cases
        /\ Len(results') \in {Len(results), Len(results) + 1}
        /\ \A i \in DOMAIN results : results'[i] = results[i]

\* C24: at every point of the execution the Results are parallel to the
\* commands: Result i carries the name and the arguments of command i and
\* one decoded reply or one error marker; appending a Result changes none
\* of the earlier ones, and the execution leaves the commands unchanged.
C24_ResultsParallel == [](Running => Parallel) /\ [][Appends]_vars

\* two commands have run: the first has an error marker, the second a reply
C24_Witness ==
    /\ pc = "executing"
    /\ Len(test_cases) = 2
    /\ Len(results) = 2
    /\ test_cases[1] # test_cases[2]
    /\ results[1].result.t = "dict"
    /\ results[2].result.t = "str"

(***************************************************************************)
(* One connection, chunk by chunk: execute_tests runs its commands and the *)
(* receive loop of execute_command is one step per call of recv.  The      *)
(* server answers a command with the chunks of one reply, or not at all,   *)
(* and a chunk reaches the client when some recv returns it.               *)
(***************************************************************************)
\* redis_fuzzer.py, line 30: the timeout of the socket, in seconds
TIMEOUT_SECONDS == 5

\* the test cases run chunk by chunk
RecvTestCases ==
    {t \in SeqsUpTo({[command |-> GET, args |-> <<S(<<"f", "o", "o">>)>>],
                     [command |-> PING, args |-> <<>>]}, MaxCommands) : t # <<>>}

\* data of lines 185-191: the chunks joined
RECURSIVE DataOf(_)
DataOf(chunks) ==
    IF chunks = <<>> THEN <<>> ELSE chunks[1].bytes \o DataOf(Tail(chunks))

RecvInit ==
    /\ IdleCodec /\ IdleConfig /\ IdleGen /\ IdleFile /\ IdleConn
    /\ pc = "executing"
    /\ afl_input = PyNone
    /\ test_cases \in RecvTestCases
    /\ results = <<>>
    /\ stats = [total_executions |-> 0, successful_executions |-> 0,
                error_executions |-> 0, timeouts |-> 0]
    /\ sock = "connected"
    /\ idx = 0
    /\ sent = <<>>
    /\ build = NoBuild
    /\ reads = <<>>

\* execute_command returns result to the loop of execute_tests, lines
\* 504-516; the call held the chunks got
Returns(result, stop, got) ==
    /\ results' = RecordResult(results, test_cases[idx + 1], result)
    /\ reads' = Append(reads, [stop |-> stop,
                               data |-> IF stop \in {"crlf", "closed"}
                                        THEN DataOf(got) ELSE <<>>])
    /\ origin' = Append(origin, {got[i].reply_to : i \in DOMAIN got})
    /\ stats' = [stats EXCEPT !.successful_executions = @ + 1,
                              !.total_executions = @ + 1]
    /\ idx' = idx + 1
    /\ pc' = "executing"

\* execute_command, lines 177-185: the command is encoded and sent; sendall
\* raises, or the server has the command and answers it with the chunks of a
\* reply
SendAll ==
    /\ pc = "executing"
    /\ idx < Len(test_cases)
    /\ sent' = Append(sent, Utf8Encode(encode_resp(PyList(
                   <<PyStr(test_cases[idx + 1].command)>> \o
                   [i \in DOMAIN test_cases[idx + 1].args |->
                       PyStr(test_cases[idx + 1].args[i])]))))
    /\ received' = <<>>
    /\ waited' = 0
    /\ \/ /\ Returns(PyError(ExecutionError), "send_error", <<>>)
          /\ pending' = pending
       \/ /\ \E chunks \in ReplyChunks :
                pending' = pending \o [i \in DOMAIN chunks |->
                                          [reply_to |-> idx + 1, bytes |-> chunks[i]]]
          /\ pc' = "receiving"
          /\ UNCHANGED <<results, reads, origin, stats, idx>>
    /\ UNCHANGED <<codecVars, configVars, fileVars, genVars, afl_input, test_cases, sock, build>>

\* execute_command, lines 186-200: one call of recv.  It returns the next
\* chunk within the timeout, and the loop goes on unless the data holds a
\* CRLF; or it returns nothing, the peer having closed; or nothing arrives
\* for TIMEOUT_SECONDS and it raises socket.timeout.
Recv ==
    /\ pc = "receiving"
    /\ \/ /\ pending # <<>>
          /\ \E d \in 0..(TIMEOUT_SECONDS - 1) : waited' = waited + d
          /\ received' = Append(received, Head(pending))
          /\ pending' = Tail(pending)
          /\ IF PyFind(DataOf(received'), CRLF, 0) # -1
             THEN Returns(ReplyOrUnknownError(decode_resp(DataOf(received'))),
                          "crlf", received')
             ELSE UNCHANGED <<results, reads, origin, stats, idx, pc>>
       \/ /\ pending = <<>>
          /\ \E d \in 0..(TIMEOUT_SECONDS - 1) : waited' = waited + d
          /\ Returns(ReplyOrUnknownError(decode_resp(DataOf(received))),
                     "closed", received)
          /\ UNCHANGED <<received, pending>>
       \/ /\ waited' = waited + TIMEOUT_SECONDS
          /\ Returns(PyError(ExecutionError), "timeout", received)
          /\ UNCHANGED <<received, pending>>
    /\ UNCHANGED <<codecVars, configVars, fileVars, genVars, afl_input, test_cases, sock,
                   sent, build>>

RecvNext == SendAll \/ Recv \/ Close

\* recv returns or raises within the timeout of the socket, so a call that
\* is receiving takes its next step
SpecRecv == RecvInit /\ [][RecvNext]_vars /\ WF_vars(Recv)

\* C25: a call of execute_command returns with a reply or an error marker,
\* and the time it waits for its one reply is bounded by the configured
\* timeout.
C25_ReturnsWithinTimeout == waited <= TIMEOUT_SECONDS

\* C27: the response recorded for command i is made of the server's reply
\* to command i: no byte of the reply to an earlier command, left unread
\* when the loop stopped or arriving after a timeout, is in it.
C27_OwnReply ==
    \A i \in DOMAIN origin : origin[i] \subseteq {i}

Outcomes ==
    stats.successful_executions + stats.error_executions + stats.timeouts

\* no counter of stats' is below its value in stats
CountersGrow ==
    \A k \in DOMAIN stats : stats'[k] >= stats[k]

\* C28: once execute_tests has returned, with a connection or without one,
\* total_executions is the sum of successful_executions, error_executions
\* and timeouts and is the number of commands of the test case; no counter
\* ever decreases.
C28_CountersAddUp ==
    /\ [](pc \in {"done", "gave_up"} =>
             /\ stats.total_executions = Outcomes
             /\ stats.total_executions = Len(test_cases))
    /\ [][CountersGrow]_vars

\* the commands run so far whose Result holds a decoded reply of the server
Replied == {i \in DOMAIN results : results[i].result.t # "dict"}

\* C29: successful_executions counts only commands whose Result holds a
\* decoded reply of the server; a command that ended in a transport error
\* or a timeout is counted in error_executions or timeouts.
C29_SuccessMeansReply ==
    pc \in {"executing", "done"} =>
        /\ stats.successful_executions <= Cardinality(Replied)
        /\ stats.error_executions + stats.timeouts >= Len(results) - Cardinality(Replied)

\* C30: every command accepted from a line of the input has a name without
\* a space: a command of the test case whose name has two words was
\* generated, not taken from the input.
C30_NoSpaceFromInput ==
    pc = "parsed" =>
        /\ \A i \in DOMAIN build.parsed_commands :
              ~Contains(build.parsed_commands[i].command, Ord[" "])
        /\ \A i \in DOMAIN build.chosen :
              ~Contains(build.chosen[i].command, Ord[" "])
        /\ \A i \in DOMAIN test_cases :
              Contains(test_cases[i].command, Ord[" "]) =>
                  test_cases[i] \in Range(build.generated)

\* the input began with the line "acl cat x": GET a was accepted from it,
\* and the ACL CAT of the test case was generated
C30_Witness ==
    /\ pc = "parsed"
    /\ afl_input = PyBytes(S(<<"a", "c", "l", " ", "c", "a", "t", " ", "x", "\n", "G", "E", "T", " ", "a">>))
    /\ Len(build.parsed_commands) = 1
    /\ \E i \in DOMAIN test_cases : test_cases[i].command = ACL_CAT
    /\ \E i \in DOMAIN test_cases : test_cases[i].command = GET

====
